---- MODULE Spec2Model ----
(***************************************************************************)
(* Job-state, time-tracking and route-lifecycle state machine of the       *)
(* kept-cold backend (src/routes.ts, second registerRoutes, lines 1847-    *)
(* 5380, and src/lib/helperFuntions.ts).                                   *)
(*                                                                         *)
(* Time is counted in ticks; TicksPerMinute ticks make one minute, so that *)
(* the Math.floor(ms / 1000 / 60) of the handlers is a real truncation.    *)
(* Store rows live in sequences indexed by their id.  NULL is the SQL null.*)
(***************************************************************************)
EXTENDS Integers, Sequences, FiniteSets, TLC

\* ------------------------------------------------------------------ bounds
MaxTime == 3
MaxJobs == 1
MaxRouteJobs == 2
MaxSessions == 2
MaxTimedSessions == 1
MaxRoutes == 1

TicksPerMinute == 2
NULL == -1

Customers == {1, 2}
Engineers == {1, 2}
Procs == {1, 2}
Payloads == {1, 2}

VARIABLES
    now,        \* Date.now(), in ticks
    customers,  \* table customers: id -> row
    jobs,       \* table jobs: sequence of rows, id = index
    sessions,   \* table time_tracking: sequence of rows, id = index
    routes,     \* table routes: sequence of rows, id = index
    procs       \* requests in flight (interleaved store operations)

vars == <<now, customers, jobs, sessions, routes, procs>>

\* ------------------------------------------------------- pure helpers
Lower(s) ==
    CASE s = "Assigned" -> "assigned"
      [] s = "In Progress" -> "in progress"
      [] s = "Quoted" -> "quoted"
      [] s = "Approved" -> "approved"
      [] s = "APPROVED" -> "approved"
      [] s = "Working" -> "working"
      [] s = "Completed" -> "completed"
      [] s = "COMPLETED" -> "completed"
      [] s = "Cancelled" -> "cancelled"
      [] s = "Invoiced" -> "invoiced"
      [] s = "Paid" -> "paid"
      [] s = "PAID" -> "paid"
      [] s = "1stReminder" -> "1streminder"
      [] s = "2ndReminder" -> "2ndreminder"
      [] OTHER -> s

\* !jobStatus: a null or empty status, written ""
isJobCompleted(jobStatus) ==
    IF jobStatus = "" THEN FALSE
    ELSE Lower(jobStatus) \in {"completed", "invoiced", "1streminder", "2ndreminder", "paid"}

isJobInProgress(jobStatus) ==
    IF jobStatus = "" THEN FALSE
    ELSE Lower(jobStatus) \in {"in progress", "inprogress"}

\* Math.floor((Date.now() - new Date(lastActionTime).getTime()) / 1000 / 60)
MinutesSince(t, lastActionTime) == (t - lastActionTime) \div TicksPerMinute

\* entry.pause_start_time || entry.start_time
LastActionTime(entry) ==
    IF entry.pause_start_time = NULL THEN entry.start_time ELSE entry.pause_start_time

\* ------------------------------------------------------- store queries
\* .from("time_tracking").eq("job_id").eq("engineer_id").is("end_time", null)
OpenSessionIds(ss, j, e) ==
    {i \in DOMAIN ss : ss[i].job_id = j /\ ss[i].engineer_id = e /\ ss[i].end_time = NULL}

\* .single(): the row when exactly one row matches, otherwise data = null
\* (PGRST116 for zero rows and for more than one row)
Single(ids) == IF Cardinality(ids) = 1 THEN CHOOSE i \in ids : TRUE ELSE NULL

JobsOfRoute(js, r) == {i \in DOMAIN js : js[i].route_id = r}

\* ------------------------------------------------------- rows
\* the customers exist from lead intake; GeocodedCustomers have
\* latitude/longitude, the others have none yet
GeocodedCustomers == {1}
SiteOf(c) == IF c \in GeocodedCustomers THEN 1 ELSE NULL

NewCustomer(c) ==
    [status |-> "new", assigned_engineer |-> NULL, scheduled_time |-> NULL,
     latitude |-> SiteOf(c), Opening_Hours |-> <<>>]

\* the ghost fields record, independently of the handlers' arithmetic, when
\* the session last began to run (run_since), the ticks of its finished
\* running segments (run_ticks) and their whole minutes (run_minutes)
NewSession(j, e, t) ==
    [job_id |-> j, engineer_id |-> e, start_time |-> t,
     accumulated_minutes |-> 0, is_paused |-> FALSE, pause_start_time |-> t,
     end_time |-> NULL, duration_minutes |-> NULL, calculation_method |-> "none",
     run_since |-> t, run_ticks |-> 0, run_minutes |-> 0]

TrackRow(old, new, t) ==
    IF old.end_time # NULL
    THEN [new EXCEPT !.run_since = old.run_since, !.run_ticks = old.run_ticks,
                     !.run_minutes = old.run_minutes]
    ELSE IF ~old.is_paused /\ (new.is_paused \/ new.end_time # NULL)
    THEN [new EXCEPT !.run_ticks = old.run_ticks + (t - old.run_since),
                     !.run_minutes = old.run_minutes + ((t - old.run_since) \div TicksPerMinute)]
    ELSE IF old.is_paused /\ ~new.is_paused /\ new.end_time = NULL
    THEN [new EXCEPT !.run_since = t]
    ELSE new

\* ghost bookkeeping applied to the rows a request leaves behind
Track(old, new, t) ==
    [i \in DOMAIN new |-> IF i \in DOMAIN old THEN TrackRow(old[i], new[i], t) ELSE new[i]]

\* ------------------------------------------------------- geospatial
\* positions are metres along a line through the site; the haversine
\* distance of two positions is their difference
calculateDistance(a, b) == IF a >= b THEN a - b ELSE b - a

StartDistanceLimit == 800000000
VerifyLocationLimit == 500

\* ------------------------------------------------------- opening hours
\* a string is the sequence of its characters
Digits == <<"0", "1", "2", "3", "4", "5", "6", "7", "8", "9">>
IsDigit(ch) == \E d \in DOMAIN Digits : Digits[d] = ch
DigitValue(ch) == (CHOOSE d \in DOMAIN Digits : Digits[d] = ch) - 1
DigitChar(n) == Digits[n + 1]

\* parseInt of a run of digits
RECURSIVE ParseInt(_)
ParseInt(str) ==
    IF str = <<>> THEN 0
    ELSE ParseInt(SubSeq(str, 1, Len(str) - 1)) * 10 + DigitValue(str[Len(str)])

\* n.toString()
RECURSIVE NumberToString(_)
NumberToString(n) == IF n < 10 THEN <<DigitChar(n)>> ELSE NumberToString(n \div 10) \o <<DigitChar(n % 10)>>

\* str.padStart(2, "0")
PadStart2(str) == IF Len(str) < 2 THEN <<"0">> \o str ELSE str

\* the order of the characters of a time string: the digits, then the colon
CharCode(ch) == IF IsDigit(ch) THEN DigitValue(ch) ELSE 10

\* a <= b on strings: by the first character that differs, a prefix first
RECURSIVE StringLeq(_, _)
StringLeq(a, b) ==
    IF a = <<>> THEN TRUE
    ELSE IF b = <<>> THEN FALSE
    ELSE IF CharCode(a[1]) # CharCode(b[1]) THEN CharCode(a[1]) < CharCode(b[1])
    ELSE StringLeq(Tail(a), Tail(b))

\* the position after the white space that starts at position i
RECURSIVE SkipSpace(_, _)
SkipSpace(str, i) == IF i <= Len(str) /\ str[i] = " " THEN SkipSpace(str, i + 1) ELSE i

\* the match of /(\d{1,2}):?(\d{2})?\s*(AM|PM)?/i at a digit at position i:
\* its groups (minutes "" when absent, meridiem in upper case) and where it ends
MatchAt(str, i) ==
    LET hourEnd == IF i + 1 <= Len(str) /\ IsDigit(str[i + 1]) THEN i + 1 ELSE i
        afterColon == IF hourEnd + 1 <= Len(str) /\ str[hourEnd + 1] = ":"
                      THEN hourEnd + 2 ELSE hourEnd + 1
        hasMinutes == /\ afterColon + 1 <= Len(str)
                      /\ IsDigit(str[afterColon])
                      /\ IsDigit(str[afterColon + 1])
        afterMinutes == IF hasMinutes THEN afterColon + 2 ELSE afterColon
        afterSpace == SkipSpace(str, afterMinutes)
        meridiem == IF afterSpace + 1 <= Len(str) /\ str[afterSpace + 1] \in {"M", "m"}
                    THEN IF str[afterSpace] \in {"A", "a"} THEN "AM"
                         ELSE IF str[afterSpace] \in {"P", "p"} THEN "PM" ELSE ""
                    ELSE ""
    IN  [hour |-> SubSeq(str, i, hourEnd),
         minutes |-> IF hasMinutes THEN SubSeq(str, afterColon, afterColon + 1) ELSE <<>>,
         meridiem |-> meridiem,
         next |-> IF meridiem = "" THEN afterSpace ELSE afterSpace + 2]

\* Array.from(openingHours.matchAll(timePattern)), from position i on
RECURSIVE Matches(_, _)
Matches(str, i) ==
    IF i > Len(str) THEN <<>>
    ELSE IF IsDigit(str[i]) THEN <<MatchAt(str, i)>> \o Matches(str, MatchAt(str, i).next)
    ELSE Matches(str, i + 1)

\* the hour of a match on the 24-hour clock
Hour24(match) ==
    LET hour == ParseInt(match.hour)
    IN  IF match.meridiem = "PM" /\ hour # 12 THEN hour + 12
        ELSE IF match.meridiem = "AM" /\ hour = 12 THEN 0
        ELSE hour

\* `${hour.toString().padStart(2, "0")}:${min.toString().padStart(2, "0")}`
TimeString(hour, min) == PadStart2(NumberToString(hour)) \o <<":">> \o PadStart2(NumberToString(min))

\* the hour that toLocaleTimeString("en-US", {hour12: false}) prints for the
\* first hour of the day: 00 or 24, depending on the runtime's ICU data
MidnightHours == {0, 24}

\* the strings toLocaleTimeString may give at minute m of the day
LocaleTimeStrings(m) ==
    IF m \div 60 = 0 THEN {TimeString(h, m % 60) : h \in MidnightHours}
    ELSE {TimeString(m \div 60, m % 60)}

TimeNotSpecified ==
    <<"T", "i", "m", "e", " ", "n", "o", "t", " ", "s", "p", "e", "c", "i", "f", "i", "e", "d">>

\* isWithinOpeningHours, given what the clock reads
isWithinOpeningHours(openingHours, currentTime) ==
    IF openingHours = <<>> \/ openingHours = TimeNotSpecified THEN TRUE
    ELSE LET matches == Matches(openingHours, 1)
         IN  IF Len(matches) >= 2
             THEN LET startTime == TimeString(Hour24(matches[1]), ParseInt(matches[1].minutes))
                      endTime == TimeString(Hour24(matches[2]), ParseInt(matches[2].minutes))
                  IN  StringLeq(startTime, currentTime) /\ StringLeq(currentTime, endTime)
             ELSE TRUE

\* the minute of the day at time t
MinutesPerDay == 1440
MinuteOfDay(t) == (t \div TicksPerMinute) % MinutesPerDay

\* latDiff < 0.0001 && lonDiff < 0.0001 ? 0 : getDrivingDistance ?? calculateDistance
StartDistance(pos, site, drv) ==
    IF pos = site THEN 0
    ELSE IF drv # NULL THEN drv ELSE calculateDistance(pos, site)

\* the threshold of the earlier definition of start-job, and of its message
\* "You must be within 1km of the job site"
StatedDistanceLimit == 1000

\* ------------------------------------------------------- input sets
EngineerPositions == {NULL, 1, 1500}
DrivingResults == {NULL, 2000}
JobLatitudes == {0, 1}
\* verify-location body: the engineer's position, absent or at 0, 500, 501
\* and 1499 m from the site
VerifyPositions == {NULL, 1, 501, 502, 1500}
\* end-job body: manual_duration_minutes (absent, given, negative) and
\* time_adjustment_minutes
ManualInputs == {<<>>, <<1>>, <<-1>>}
Adjustments == {0, -1, 1}
NoCustomer == Cardinality(Customers) + 1
CustomerLists == {<<>>} \cup {<<a>> : a \in Customers \cup {NoCustomer}}
                 \cup {<<a, b>> : a \in Customers, b \in Customers \cup {NoCustomer}}
\* a request in flight: where it stands (pc), what was asked (op, job,
\* engineer, payload, route), what it has read so far (seen, entry, read,
\* customerIds) and, once done, its response
IdleProc ==
    [pc |-> "idle", op |-> "", job |-> NULL, engineer |-> NULL, payload |-> NULL,
     route |-> NULL, seen |-> "", entry |-> NULL, read |-> <<>>, customerIds |-> {},
     response |-> ""]
IdleProcs == [p \in Procs |-> IdleProc]

Init ==
    /\ now = 0
    /\ customers = [c \in Customers |-> NewCustomer(c)]
    /\ jobs = <<>>
    /\ sessions = <<>>
    /\ routes = <<>>
    /\ procs = IdleProcs

\* the clock advances between requests
Tick ==
    /\ now < MaxTime
    /\ now' = now + 1
    /\ UNCHANGED <<customers, jobs, sessions, routes, procs>>

\* ------------------------------------------------------- job handlers
\* Every handler is a response, computed from the store and the request as
\* the handler computes it, and an action that writes what the handler
\* writes on the way to that response.

\* POST /api/jobs/assign
AssignJobResponse(c) ==
    IF c \notin DOMAIN customers THEN "404 customer not found" ELSE "200 ok"

\* an assignment that would leave the customer as it was (used to test C26)
AssignJobKeepingCustomer(c, e, lat) ==
    /\ UNCHANGED <<now, customers, sessions, routes, procs>>
    /\ IF AssignJobResponse(c) # "200 ok"
       THEN UNCHANGED jobs
       ELSE jobs' = Append(jobs,
                 [customer_id |-> c, engineer_uuid |-> e, job_status |-> "Assigned",
                  route_id |-> NULL, route_order |-> NULL, quote |-> NULL,
                  customer_latitude |-> lat,
                  open_time |-> customers[c].Opening_Hours])

AssignJob(c, e, lat) ==
    /\ UNCHANGED <<now, sessions, routes, procs>>
    /\ IF AssignJobResponse(c) # "200 ok"
       THEN UNCHANGED <<customers, jobs>>
       ELSE /\ jobs' = Append(jobs,
                 [customer_id |-> c, engineer_uuid |-> e, job_status |-> "Assigned",
                  route_id |-> NULL, route_order |-> NULL, quote |-> NULL,
                  customer_latitude |-> lat,
                  open_time |-> customers[c].Opening_Hours])
            /\ customers' = [customers EXCEPT ![c].status = "assigned",
                                              ![c].assigned_engineer = e]

\* the approval of a quote, which happens outside this repository
AdminApprove(j) ==
    /\ j \in DOMAIN jobs
    /\ Lower(jobs[j].job_status) = "quoted"
    /\ jobs' = [jobs EXCEPT ![j].job_status = "Approved"]
    /\ UNCHANGED <<now, customers, sessions, routes, procs>>

\* the spellings in which an approval may be written
ApprovedSpellings == {"Approved", "approved", "APPROVED"}

\* the approval of a quote, written in any letter case
AdminApproveAs(j, spelling) ==
    /\ j \in DOMAIN jobs
    /\ Lower(jobs[j].job_status) = "quoted"
    /\ jobs' = [jobs EXCEPT ![j].job_status = spelling]
    /\ UNCHANGED <<now, customers, sessions, routes, procs>>

\* a lookup that would find only paused sessions (used to test C1)
OnlyPausedEntry(ss, j, e) == Single({i \in OpenSessionIds(ss, j, e) : ss[i].is_paused})

\* start-job: the open session of the pair, read first
ExistingEntry(ss, j, e) == Single(OpenSessionIds(ss, j, e))

\* start-job: the checks made once no open session was found
StartJobCheck(js, cs, t, j, pos, drv) ==
    IF j \notin DOMAIN js THEN "404 job not found"
    ELSE IF Lower(js[j].job_status) = "quoted" THEN "403 quoted"
    ELSE IF js[j].customer_id \notin DOMAIN cs THEN "404 customer not found"
    ELSE IF pos = NULL THEN "400 location required"
    ELSE IF js[j].customer_latitude = 0 THEN "400 customer location missing"
    ELSE IF StartDistance(pos, js[j].customer_latitude, drv) > StartDistanceLimit
         THEN "400 location verification failed"
    ELSE IF /\ cs[js[j].customer_id].Opening_Hours # <<>>
            /\ \E currentTime \in LocaleTimeStrings(MinuteOfDay(t)) :
                  ~isWithinOpeningHours(cs[js[j].customer_id].Opening_Hours, currentTime)
         THEN "400 time verification failed"
    ELSE "200 ok"

\* the row start-job writes when it finds the pair's session paused
StartResumedRow(row, t) == [row EXCEPT !.is_paused = FALSE, !.pause_start_time = t]

\* POST /api/start-job
StartJobResponse(j, e, pos, drv) ==
    LET existingEntry == ExistingEntry(sessions, j, e)
    IN  IF existingEntry # NULL
        THEN IF sessions[existingEntry].is_paused THEN "200 job resumed"
             ELSE "400 already active"
        ELSE StartJobCheck(jobs, customers, now, j, pos, drv)

StartJob(j, e, pos, drv) ==
    LET existingEntry == ExistingEntry(sessions, j, e)
        resp == StartJobResponse(j, e, pos, drv)
    IN  /\ UNCHANGED <<now, customers, routes, procs>>
        /\ IF resp = "200 job resumed"
           THEN /\ sessions' = Track(sessions,
                       [sessions EXCEPT ![existingEntry] =
                            StartResumedRow(sessions[existingEntry], now)], now)
                /\ UNCHANGED jobs
           ELSE IF resp = "200 ok"
           THEN /\ sessions' = Append(sessions, NewSession(j, e, now))
                /\ jobs' = [jobs EXCEPT ![j].job_status = "In Progress"]
           ELSE UNCHANGED <<jobs, sessions>>

\* a pause that would drop the minutes of the segment it ends (used to test
\* C35)
PausedRowNotBanking(row, t) == [row EXCEPT !.is_paused = TRUE, !.pause_start_time = t]

\* the row pause-job writes: elapsed minutes banked, paused flag set
PausedRow(row, t) ==
    [row EXCEPT !.accumulated_minutes =
                    row.accumulated_minutes + MinutesSince(t, LastActionTime(row)),
                !.is_paused = TRUE,
                !.pause_start_time = t]

\* a check that would let a paused session be paused again (used to test C15)
PauseJobResponseIgnoringPaused(j, e) ==
    IF Single(OpenSessionIds(sessions, j, e)) = NULL THEN "404 no active time entry"
    ELSE "200 ok"

\* POST /api/pause-job
PauseJobResponse(j, e) ==
    LET entry == Single(OpenSessionIds(sessions, j, e))
    IN  IF entry = NULL THEN "404 no active time entry"
        ELSE IF sessions[entry].is_paused THEN "400 already paused"
        ELSE "200 ok"

PauseJob(j, e) ==
    LET entry == Single(OpenSessionIds(sessions, j, e))
    IN  /\ UNCHANGED <<now, customers, jobs, routes, procs>>
        /\ IF PauseJobResponse(j, e) # "200 ok"
           THEN UNCHANGED sessions
           ELSE sessions' = Track(sessions,
                    [sessions EXCEPT ![entry] = PausedRow(sessions[entry], now)], now)

\* a resume that would keep the old reference point (used to test C4)
ResumedRowKeepingReference(row, t) == [row EXCEPT !.is_paused = FALSE]

\* the row resume-job writes
ResumedRow(row, t) == [row EXCEPT !.is_paused = FALSE, !.pause_start_time = t]

\* a promotion that would know one spelling only (used to test C25)
ResumedJobStatusCaseSensitive(status) ==
    IF status = "Approved" THEN "Working" ELSE status

\* resume-job: the job status it leaves
ResumedJobStatus(status) ==
    IF Lower(status) = "approved" THEN "Working" ELSE status

\* POST /api/resume-job
ResumeJobResponse(j, e) ==
    LET entry == Single(OpenSessionIds(sessions, j, e))
    IN  IF entry = NULL THEN "404 no active time entry"
        ELSE IF ~sessions[entry].is_paused THEN "400 not paused"
        ELSE "200 ok"

ResumeJob(j, e) ==
    LET entry == Single(OpenSessionIds(sessions, j, e))
    IN  /\ UNCHANGED <<now, customers, routes, procs>>
        /\ IF ResumeJobResponse(j, e) # "200 ok"
           THEN UNCHANGED <<sessions, jobs>>
           ELSE /\ sessions' = Track(sessions,
                    [sessions EXCEPT ![entry] = ResumedRow(sessions[entry], now)], now)
                /\ jobs' = IF j \in DOMAIN jobs
                           THEN [jobs EXCEPT ![j].job_status = ResumedJobStatus(@)]
                           ELSE jobs

\* the row the earlier definition of submit-job-quote writes: the session is
\* closed, not paused (used to test C16)
QuoteClosedRow(row, t) ==
    [row EXCEPT !.end_time = t,
                !.duration_minutes = (t - row.start_time) \div TicksPerMinute]

\* the outbound webhook call either is delivered or throws
WebhookOutcomes == {"delivered", "throws"}

\* a webhook call without its own try/catch (used to test C19)
WebhookCallUnguarded(hook) == IF hook = "throws" THEN "escaped" ELSE "sent"

\* try { await fetch(webhook, ...) } catch (webhookErr) { console.error(...) }:
\* a failure is logged and the handler goes on
WebhookCall(hook) == IF hook = "throws" THEN "logged" ELSE "sent"

\* the row submit-job-quote writes when it pauses a running session
QuotePausedRow(row, t) ==
    [row EXCEPT !.accumulated_minutes =
                    row.accumulated_minutes + MinutesSince(t, LastActionTime(row)),
                !.is_paused = TRUE,
                !.pause_start_time = t]

\* an undo that would restore the minutes but not the running state (used to
\* test C17)
QuoteRolledBackRowStillPaused(row, read) ==
    [row EXCEPT !.accumulated_minutes = read.accumulated_minutes]

\* the row submit-job-quote writes to undo that pause: the values it read
QuoteRolledBackRow(row, read) ==
    [row EXCEPT !.accumulated_minutes = read.accumulated_minutes,
                !.is_paused = FALSE,
                !.pause_start_time = read.pause_start_time]

\* a guard that would let every status through (used to test C18)
QuoteNeverSubmitted(currentStatus) == FALSE

\* the first guard of submit-job-quote, on the lower-cased status it read
QuoteAlreadySubmitted(currentStatus) == currentStatus \in {"quoted", "approved"}

\* ids of the rows the conditional update of submit-job-quote matches:
\* .eq("id", job_id).eq("job_status", "In Progress")
QuoteUpdateMatches(js, j) ==
    {i \in DOMAIN js : i = j /\ js[i].job_status = "In Progress"}

\* the outcome of that update: .select().single() yields an error unless
\* exactly one row comes back, and the handler rethrows the error, which its
\* catch turns into a 500; the 409 branch needs data = null without an error
QuoteUpdateResponse(matched) ==
    LET updateError == Cardinality(matched) # 1
        updatedJob == Single(matched)
    IN  IF updateError THEN "500 failed to submit quote"
        ELSE IF updatedJob = NULL THEN "409 quote already submitted"
        ELSE "200 ok"

\* POST /api/submit-job-quote
SubmitJobQuoteResponse(j) ==
    LET currentStatus == IF j \in DOMAIN jobs THEN Lower(jobs[j].job_status) ELSE ""
    IN  IF QuoteAlreadySubmitted(currentStatus) THEN "400 quote already submitted"
        ELSE QuoteUpdateResponse(QuoteUpdateMatches(jobs, j))

\* submit-job-quote: the response once the webhook was called, which is after
\* the job update; an exception that escapes reaches the handler's catch
SubmitJobQuoteReply(j, hook) ==
    IF SubmitJobQuoteResponse(j) # "200 ok" THEN SubmitJobQuoteResponse(j)
    ELSE IF WebhookCall(hook) = "escaped" THEN "500 failed to submit quote"
    ELSE "200 ok"

SubmitJobQuote(j, e, payload) ==
    LET resp == SubmitJobQuoteResponse(j)
        timeEntry == Single(OpenSessionIds(sessions, j, e))
        banked == timeEntry # NULL /\ ~sessions[timeEntry].is_paused
        paused == IF banked
                  THEN [sessions EXCEPT ![timeEntry] = QuotePausedRow(sessions[timeEntry], now)]
                  ELSE sessions
        rolledBack == IF banked
                      THEN [paused EXCEPT ![timeEntry] =
                                QuoteRolledBackRow(paused[timeEntry], sessions[timeEntry])]
                      ELSE paused
    IN  /\ UNCHANGED <<now, customers, routes, procs>>
        /\ IF resp = "400 quote already submitted"
           THEN UNCHANGED <<jobs, sessions>>
           ELSE IF resp # "200 ok"
           THEN /\ sessions' = Track(sessions, rolledBack, now)
                /\ UNCHANGED jobs
           ELSE /\ sessions' = Track(sessions, paused, now)
                /\ jobs' = [jobs EXCEPT ![j].job_status = "Quoted", ![j].quote = payload]

\* a range test with the start-job radius of 1 km (used to test C20)
WithinStartRange(distance) == distance <= StatedDistanceLimit

\* verify-location: within_range: distance <= 500
WithinRange(distance) == distance <= VerifyLocationLimit

\* POST /api/verify-location
VerifyLocationResponse(j, e, pos) ==
    IF pos = NULL THEN "400 missing required parameters"
    ELSE IF j \notin DOMAIN jobs THEN "404 job not found"
    ELSE LET c == jobs[j].customer_id
         IN  IF c \notin DOMAIN customers \/ customers[c].latitude = NULL
             THEN "200 within range"
             ELSE IF WithinRange(calculateDistance(pos, customers[c].latitude))
             THEN "200 within range"
             ELSE "200 out of range"

VerifyLocation(j, e, pos) ==
    /\ VerifyLocationResponse(j, e, pos) \in
          {"400 missing required parameters", "404 job not found",
           "200 within range", "200 out of range"}
    /\ UNCHANGED vars

\* a total that would count the time since the pause as well (used to test C12)
EndTotalCountingPause(row, t, manual, adj) ==
    LET finalMinutes == row.accumulated_minutes + MinutesSince(t, LastActionTime(row))
    IN  IF manual # <<>> /\ manual[1] >= 0
        THEN [minutes |-> manual[1], method |-> "manual_override"]
        ELSE IF adj # 0
        THEN [minutes |-> (IF finalMinutes + adj > 0 THEN finalMinutes + adj ELSE 0),
              method |-> "adjusted"]
        ELSE [minutes |-> finalMinutes, method |-> "automatic"]

\* a total that would take every manual value and would not stop an adjusted
\* sum at 0 (used to test C34)
EndTotalUnclamped(row, t, manual, adj) ==
    LET finalMinutes == row.accumulated_minutes
                        + (IF row.is_paused THEN 0
                           ELSE MinutesSince(t, LastActionTime(row)))
    IN  IF manual # <<>>
        THEN [minutes |-> manual[1], method |-> "manual_override"]
        ELSE IF adj # 0
        THEN [minutes |-> finalMinutes + adj, method |-> "adjusted"]
        ELSE [minutes |-> finalMinutes, method |-> "automatic"]

\* total minutes and calculation method written by end-job
EndTotal(row, t, manual, adj) ==
    LET finalMinutes == row.accumulated_minutes
                        + (IF row.is_paused THEN 0
                           ELSE MinutesSince(t, LastActionTime(row)))
    IN  IF manual # <<>> /\ manual[1] >= 0
        THEN [minutes |-> manual[1], method |-> "manual_override"]
        ELSE IF adj # 0
        THEN [minutes |-> (IF finalMinutes + adj > 0 THEN finalMinutes + adj ELSE 0),
              method |-> "adjusted"]
        ELSE [minutes |-> finalMinutes, method |-> "automatic"]

\* POST /api/end-job
EndJobResponse(j, e) ==
    IF Single(OpenSessionIds(sessions, j, e)) = NULL THEN "404 no active time entry"
    ELSE "200 ok"

\* end-job: the response once the webhook was called, which is after the
\* session, job and customer updates
EndJobReply(j, e, hook) ==
    IF EndJobResponse(j, e) # "200 ok" THEN EndJobResponse(j, e)
    ELSE IF WebhookCall(hook) = "escaped" THEN "500 failed to end job"
    ELSE "200 ok"

\* an end-job that would not cascade to the customer (used to test C13)
EndJobWithoutCascade(j, e, manual, adj) ==
    LET entry == Single(OpenSessionIds(sessions, j, e))
        total == EndTotal(sessions[entry], now, manual, adj)
    IN  /\ UNCHANGED <<now, customers, routes, procs>>
        /\ IF EndJobResponse(j, e) # "200 ok"
           THEN UNCHANGED <<jobs, sessions>>
           ELSE /\ sessions' = Track(sessions,
                    [sessions EXCEPT ![entry].end_time = now,
                                     ![entry].duration_minutes = total.minutes,
                                     ![entry].is_paused = FALSE,
                                     ![entry].accumulated_minutes = total.minutes,
                                     ![entry].calculation_method = total.method], now)
                /\ jobs' = [jobs EXCEPT ![j].job_status = "Completed"]

EndJob(j, e, manual, adj) ==
    LET entry == Single(OpenSessionIds(sessions, j, e))
        total == EndTotal(sessions[entry], now, manual, adj)
    IN  /\ UNCHANGED <<now, routes, procs>>
        /\ IF EndJobResponse(j, e) # "200 ok"
           THEN UNCHANGED <<customers, jobs, sessions>>
           ELSE /\ sessions' = Track(sessions,
                    [sessions EXCEPT ![entry].end_time = now,
                                     ![entry].duration_minutes = total.minutes,
                                     ![entry].is_paused = FALSE,
                                     ![entry].accumulated_minutes = total.minutes,
                                     ![entry].calculation_method = total.method], now)
                /\ jobs' = IF j \in DOMAIN jobs
                           THEN [jobs EXCEPT ![j].job_status = "Completed"]
                           ELSE jobs
                /\ customers' = IF j \in DOMAIN jobs /\ jobs[j].customer_id \in DOMAIN customers
                                THEN [customers EXCEPT ![jobs[j].customer_id].status = "completed"]
                                ELSE customers

\* a total that would go on counting while the session is paused (used to
\* test C24)
CurrentTotalCountingPause(row, t) ==
    row.accumulated_minutes + MinutesSince(t, LastActionTime(row))

\* active-job: current_total_minutes
CurrentTotal(row, t) ==
    row.accumulated_minutes
      + (IF row.is_paused THEN 0 ELSE MinutesSince(t, LastActionTime(row)))

\* active-job: the open sessions of the engineer that
\* .order("start_time", descending).limit(1) may return
ActiveEntries(e) ==
    LET open == {i \in DOMAIN sessions : sessions[i].engineer_id = e /\ sessions[i].end_time = NULL}
    IN  {i \in open : \A k \in open : sessions[k].start_time <= sessions[i].start_time}

\* GET /api/engineers/:engineerId/active-job, with the entry i it read
\* (NULL when the engineer has no open session)
ActiveJobResponse(e, i) ==
    IF i = NULL THEN [status |-> "404 no active timer"]
    ELSE IF sessions[i].job_id \notin DOMAIN jobs THEN [status |-> "404 no active job found"]
    ELSE [status |-> "200 ok",
          job_id |-> sessions[i].job_id,
          accumulated_minutes |-> sessions[i].accumulated_minutes,
          is_paused |-> sessions[i].is_paused,
          current_total_minutes |-> CurrentTotal(sessions[i], now),
          job_status |-> jobs[sessions[i].job_id].job_status]

ActiveJob(e) ==
    /\ \E i \in ActiveEntries(e) \cup {NULL} :
          /\ i = NULL <=> ActiveEntries(e) = {}
          /\ ActiveJobResponse(e, i).status \in
                {"404 no active timer", "404 no active job found", "200 ok"}
    /\ UNCHANGED vars

\* ------------------------------------------------------- route handlers
NewRoute(e) ==
    [engineer_id |-> e, status |-> "scheduled", started_at |-> NULL,
     completed_at |-> NULL, cancelled_at |-> NULL]

RouteJob(c, e, r, ord, lat, hours) ==
    [customer_id |-> c, engineer_uuid |-> e, job_status |-> "Assigned",
     route_id |-> r, route_order |-> ord, quote |-> NULL,
     customer_latitude |-> lat, open_time |-> hours]

\* what the store answers to the writes made for one listed job: both succeed,
\* the job insert returns an error, or the customer update returns an error
StoreOutcomes == {"ok", "insert fails", "update fails"}
NoFaults(list) == [i \in DOMAIN list |-> "ok"]
FaultLists(list) == [DOMAIN list -> StoreOutcomes]

\* the loop of routes/assign over the listed customers, from position k on:
\* a missing customer or a failed job insert is recorded in errors and the
\* loop continues; a failed customer update is only logged
RECURSIVE AssignLoop(_, _, _, _, _, _)
AssignLoop(list, faults, k, e, r, acc) ==
    IF k > Len(list) THEN acc
    ELSE LET c == list[k]
         IN  IF c \notin DOMAIN acc.customers \/ faults[k] = "insert fails"
             THEN AssignLoop(list, faults, k + 1, e, r, [acc EXCEPT !.errors = acc.errors + 1])
             ELSE AssignLoop(list, faults, k + 1, e, r,
                    [acc EXCEPT
                       !.jobs = Append(acc.jobs,
                            RouteJob(c, e, r, k,
                                     IF acc.customers[c].latitude = NULL THEN 0
                                     ELSE acc.customers[c].latitude,
                                     acc.customers[c].Opening_Hours)),
                       !.customers = IF faults[k] = "update fails" THEN acc.customers
                                     ELSE [acc.customers EXCEPT
                                             ![c].status = "assigned",
                                             ![c].assigned_engineer = e,
                                             ![c].scheduled_time = 1],
                       !.assigned = acc.assigned + 1])

\* POST /api/routes/assign
RouteAssignResponse(e, list) ==
    IF Len(list) = 0 THEN "400 engineer and jobs are required"
    ELSE IF e \notin Engineers THEN "404 engineer not found"
    ELSE "200 ok"

\* routes/assign: what the loop leaves behind and counts
AssignOutcome(e, list, faults) ==
    AssignLoop(list, faults, 1, e, Len(routes) + 1,
               [jobs |-> jobs, customers |-> customers, errors |-> 0, assigned |-> 0])

\* routes/assign: the response body (status, jobs_assigned, number of errors)
RouteAssignReply(e, list, faults, routeFails) ==
    IF RouteAssignResponse(e, list) # "200 ok"
    THEN [status |-> RouteAssignResponse(e, list), jobs_assigned |-> 0, errors |-> 0]
    ELSE IF routeFails
    THEN [status |-> "500 failed to create route", jobs_assigned |-> 0, errors |-> 0]
    ELSE [status |-> "200 ok",
          jobs_assigned |-> AssignOutcome(e, list, faults).assigned,
          errors |-> AssignOutcome(e, list, faults).errors]

\* routes/assign with the store's answers to the route insert and to the
\* writes of each listed job
RouteAssignWith(e, list, faults, routeFails) ==
    /\ UNCHANGED <<now, sessions, procs>>
    /\ IF RouteAssignReply(e, list, faults, routeFails).status # "200 ok"
       THEN UNCHANGED <<routes, jobs, customers>>
       ELSE /\ routes' = Append(routes, NewRoute(e))
            /\ jobs' = AssignOutcome(e, list, faults).jobs
            /\ customers' = AssignOutcome(e, list, faults).customers

\* routes/assign when every write succeeds
RouteAssign(e, list) == RouteAssignWith(e, list, NoFaults(list), FALSE)

\* .from("routes").eq("id", routeId).eq("engineer_id", engineerId).single()
RouteOf(rs, e, r) == IF r \in DOMAIN rs /\ rs[r].engineer_id = e THEN r ELSE NULL

\* the guard of the start request on the status it read
CanStartRoute(status) == status = "scheduled"

\* PUT /api/engineers/:engineerId/routes/:routeId/start
RouteStartResponse(e, r) ==
    IF RouteOf(routes, e, r) = NULL THEN "404 route not found"
    ELSE IF ~CanStartRoute(routes[r].status) THEN "400 cannot start route"
    ELSE "200 ok"

RouteStart(e, r) ==
    /\ UNCHANGED <<now, customers, jobs, sessions, procs>>
    /\ IF RouteStartResponse(e, r) # "200 ok"
       THEN UNCHANGED routes
       ELSE routes' = [routes EXCEPT ![r].status = "in_progress", ![r].started_at = now]

\* a check that would let a route without jobs through (used to test C7)
CompleteCheckAllowingEmpty(js, r) ==
    IF \E i \in JobsOfRoute(js, r) : ~isJobCompleted(js[i].job_status)
    THEN "400 jobs still pending"
    ELSE "200 ok"

\* the job-completion check of the complete request
CompleteCheck(js, r) ==
    LET totalJobs == Cardinality(JobsOfRoute(js, r))
        completedJobs == Cardinality({i \in JobsOfRoute(js, r) : isJobCompleted(js[i].job_status)})
    IN  IF totalJobs = 0 THEN "400 no jobs found in this route"
        ELSE IF completedJobs < totalJobs THEN "400 jobs still pending"
        ELSE "200 ok"

\* PUT /api/engineers/:engineerId/routes/:routeId/complete
RouteCompleteResponse(e, r) ==
    IF RouteOf(routes, e, r) = NULL THEN "404 route not found"
    ELSE IF routes[r].status # "in_progress" THEN "400 cannot complete route"
    ELSE CompleteCheck(jobs, r)

RouteComplete(e, r) ==
    /\ UNCHANGED <<now, customers, jobs, sessions, procs>>
    /\ IF RouteCompleteResponse(e, r) # "200 ok"
       THEN UNCHANGED routes
       ELSE routes' = [routes EXCEPT ![r].status = "completed", ![r].completed_at = now]

\* a guard that would also let a started route through (used to test C8)
CanCancelUnfinishedRoute(status) == status \in {"scheduled", "in_progress"}

\* the guard of the cancel request on the status it read
CanCancelRoute(status) == status = "scheduled"

\* the jobs table after the cancel cascade: .update(...).eq("route_id", routeId)
CancelJobs(js, r) ==
    [i \in DOMAIN js |->
        IF js[i].route_id = r
        THEN [js[i] EXCEPT !.job_status = "Cancelled", !.route_id = NULL, !.route_order = NULL]
        ELSE js[i]]

\* a cascade that would leave the customers as they are (used to test C10)
CancelNoCustomers(cs, customerIds) == cs

\* the customers table after the cancel cascade: .update(...).in("id", customerIds)
CancelCustomers(cs, customerIds) ==
    [c \in DOMAIN cs |->
        IF c \in customerIds
        THEN [cs[c] EXCEPT !.status = "new", !.assigned_engineer = NULL, !.scheduled_time = NULL]
        ELSE cs[c]]

\* PUT /api/engineers/:engineerId/routes/:routeId/cancel
RouteCancelResponse(e, r) ==
    IF RouteOf(routes, e, r) = NULL THEN "404 route not found"
    ELSE IF ~CanCancelRoute(routes[r].status) THEN "400 cannot cancel route"
    ELSE "200 ok"

RouteCancel(e, r) ==
    LET customerIds == {jobs[i].customer_id : i \in JobsOfRoute(jobs, r)}
    IN  /\ UNCHANGED <<now, sessions, procs>>
        /\ IF RouteCancelResponse(e, r) # "200 ok"
           THEN UNCHANGED <<routes, jobs, customers>>
           ELSE /\ routes' = [routes EXCEPT ![r].status = "cancelled", ![r].cancelled_at = now]
                /\ jobs' = CancelJobs(jobs, r)
                /\ customers' = CancelCustomers(customers, customerIds)

\* a can_complete that would not ask for a job on the route (used to test C22)
CanCompleteAllowingEmpty(js, r, status) ==
    /\ \A i \in JobsOfRoute(js, r) : isJobCompleted(js[i].job_status)
    /\ status = "in_progress"

\* the route reads: can_complete, from the counts of the route's jobs
CanComplete(js, r, status) ==
    LET totalJobs == Cardinality(JobsOfRoute(js, r))
        completedJobs == Cardinality({i \in JobsOfRoute(js, r) : isJobCompleted(js[i].job_status)})
    IN  completedJobs = totalJobs /\ totalJobs > 0 /\ status = "in_progress"

\* the route as the engineer's reads return it: the stored row with the
\* derived flags added
RouteView(r) ==
    [row |-> routes[r],
     can_start |-> routes[r].status = "scheduled",
     can_complete |-> CanComplete(jobs, r, routes[r].status),
     can_cancel |-> routes[r].status = "scheduled"]

\* GET /api/engineers/:id/routes
GetRoutesResponse(e) == [r \in {x \in DOMAIN routes : routes[x].engineer_id = e} |-> RouteView(r)]

GetRoutes(e) ==
    /\ DOMAIN GetRoutesResponse(e) \subseteq DOMAIN routes
    /\ UNCHANGED vars

\* GET /api/engineers/:engineerId/routes/:routeId
GetRouteResponse(e, r) ==
    IF RouteOf(routes, e, r) = NULL THEN "404 route not found" ELSE "200 ok"

GetRoute(e, r) ==
    /\ GetRouteResponse(e, r) \in {"404 route not found", "200 ok"}
    /\ UNCHANGED vars

\* POST /api/geocode: coordinates already stored are returned as they are;
\* otherwise the looked-up location, if any, is stored on the customer
GeocodeResults == {NULL, 2}

GeocodeResponse(c, loc) ==
    IF c \in DOMAIN customers /\ customers[c].latitude # NULL THEN "200 cached"
    ELSE IF loc = NULL THEN "404 location not found"
    ELSE "200 ok"

Geocode(c, loc) ==
    /\ UNCHANGED <<now, jobs, sessions, routes, procs>>
    /\ IF GeocodeResponse(c, loc) = "200 ok" /\ c \in DOMAIN customers
       THEN customers' = [customers EXCEPT ![c].latitude = loc]
       ELSE UNCHANGED customers

\* a job id of a request body: JSON gives a number or a string of digits
JobIdInputs ==
    [type : {"number", "string"}, digits : Customers \cup {NoCustomer}]
JobIdLists ==
    {<<>>} \cup {<<a>> : a \in JobIdInputs} \cup {<<a, b>> : a, b \in JobIdInputs}

\* Number(x): a number as it is, a string of digits as the number it spells
ToNumber(x) == x.digits

\* parseInt(j.id) === jobId: strict equality holds for a number only
StrictEquals(n, x) == x.type = "number" /\ x.digits = n

\* the engineers whose GPS position is stored
LocatedEngineers == {1}

\* what the directions service answers
DirectionsStatuses == {"OK", "ZERO_RESULTS"}

\* a row with coordinates: c.latitude && c.longitude
HasCoordinates(row) == row.latitude # NULL /\ row.latitude # 0

\* routes/optimize: the customers selected by .in("id", job_ids.map(Number))
\* that have coordinates
ValidJobs(job_ids) ==
    {c \in DOMAIN customers :
        /\ \E i \in DOMAIN job_ids : ToNumber(job_ids[i]) = c
        /\ HasCoordinates(customers[c])}

\* routes/optimize: orderedJobs, one entry for every listed id that
\* validJobs.find(...) matches, in the order of job_ids
RECURSIVE OrderedJobs(_, _)
OrderedJobs(job_ids, k) ==
    IF k > Len(job_ids) THEN <<>>
    ELSE LET found == {c \in ValidJobs(job_ids) : StrictEquals(c, job_ids[k])}
         IN  IF found = {} THEN OrderedJobs(job_ids, k + 1)
             ELSE <<CHOOSE c \in found : TRUE>> \o OrderedJobs(job_ids, k + 1)

\* POST /api/routes/optimize
OptimizeResponse(e, job_ids, directions) ==
    LET listed == {c \in DOMAIN customers : \E i \in DOMAIN job_ids : ToNumber(job_ids[i]) = c}
        orderedJobs == OrderedJobs(job_ids, 1)
        failed(text) == [status |-> text, optimizedJobs |-> <<>>, destination |-> NULL]
    IN  IF Len(job_ids) = 0 THEN failed("400 engineer_id and job_ids are required")
        ELSE IF e \notin Engineers THEN failed("404 engineer not found")
        ELSE IF e \notin LocatedEngineers THEN failed("400 engineer location not available")
        ELSE IF listed = {} THEN failed("404 jobs not found")
        ELSE IF ValidJobs(job_ids) = {} THEN failed("400 no jobs have valid coordinates")
        ELSE IF orderedJobs = <<>> THEN failed("500 route calculation failed")
        ELSE IF directions # "OK" THEN failed("400 route calculation failed")
        ELSE [status |-> "200 ok",
              optimizedJobs |-> [i \in DOMAIN orderedJobs |-> [id |-> orderedJobs[i], order |-> i]],
              destination |-> orderedJobs[Len(orderedJobs)]]

Optimize(e, job_ids, directions) ==
    /\ OptimizeResponse(e, job_ids, directions).status # ""
    /\ UNCHANGED vars

\* ------------------------------------------------------- sequential requests
\* the ids a request may name: every stored row and one id that is not stored
JobIds == DOMAIN jobs \cup {Len(jobs) + 1}
RouteIds == DOMAIN routes \cup {Len(routes) + 1}

\* complete, non-overlapping requests of the job and time-tracking handlers,
\* all within one tick of the clock
Next ==
    \/ \E c \in Customers \cup {NoCustomer}, lat \in JobLatitudes :
          AssignJob(c, 1, lat) /\ Len(jobs') <= MaxJobs
    \/ \E j \in JobIds : AdminApprove(j)
    \/ \E j \in JobIds, e \in Engineers, pos \in EngineerPositions, drv \in DrivingResults :
          StartJob(j, e, pos, drv) /\ Len(sessions') <= MaxSessions
    \/ \E j \in JobIds, e \in Engineers : PauseJob(j, e)
    \/ \E j \in JobIds, e \in Engineers : ResumeJob(j, e)
    \/ \E j \in JobIds, e \in Engineers : SubmitJobQuote(j, e, 1)
    \/ \E j \in JobIds, e \in Engineers : EndJob(j, e, <<>>, 0)
    \/ \E j \in JobIds, e \in Engineers, pos \in VerifyPositions : VerifyLocation(j, e, pos)

Spec == Init /\ [][Next]_vars

\* C1: after any sequence of complete start-job, pause-job, resume-job,
\* submit-job-quote and end-job requests, every (job_id, engineer_id) pair
\* has at most one time-tracking session with end_time = null.
OneOpenSessionPerPair ==
    \A j \in JobIds, e \in Engineers : Cardinality(OpenSessionIds(sessions, j, e)) <= 1

\* C1 witness: a pair that was started, ended and started again has a closed
\* and an open session
ReopenedPair ==
    \E a, b \in DOMAIN sessions :
        /\ sessions[a].job_id = sessions[b].job_id
        /\ sessions[a].engineer_id = sessions[b].engineer_id
        /\ sessions[a].end_time # NULL
        /\ sessions[b].end_time = NULL

\* C3: a start-job request for a job whose stored status is Quoted is answered
\* Forbidden whatever the location and whether or not the pair has an open
\* session, and it changes no job and no time-tracking record.
\* (Not so: the open session is looked up before the status is, and a paused
\* session of a Quoted job is resumed.)
QuotedStartIsForbidden ==
    [][\A j \in DOMAIN jobs, e \in Engineers, pos \in EngineerPositions, drv \in DrivingResults :
          Lower(jobs[j].job_status) = "quoted" =>
             /\ StartJobResponse(j, e, pos, drv) = "403 quoted"
             /\ StartJob(j, e, pos, drv) => UNCHANGED <<jobs, sessions>>]_vars

\* the responses the specification files under Conflict: a state precondition
\* that does not hold, answered 400 or 409
ConflictResponses == {"400 quote already submitted", "409 quote already submitted"}

\* C5: a submit-job-quote request for a job whose stored status is not
\* In Progress is answered Conflict and leaves the job's status and quote
\* payload as they were.
\* (Not so: for every status but Quoted and Approved the conditional update
\* matches no row, .single() reports that as an error and the answer is 500.)
QuoteOutsideInProgressConflicts ==
    [][\A j \in DOMAIN jobs, e \in Engineers, payload \in Payloads :
          jobs[j].job_status # "In Progress" =>
             /\ SubmitJobQuoteResponse(j) \in ConflictResponses
             /\ SubmitJobQuote(j, e, payload) =>
                    /\ jobs'[j].job_status = jobs[j].job_status
                    /\ jobs'[j].quote = jobs[j].quote]_vars

\* start-job for (j, e) from pos gets as far as computing a distance: the pair
\* has no open session, the job is stored and not Quoted, its customer is
\* stored, and both locations are present
DistanceComputed(j, e, pos) ==
    /\ ExistingEntry(sessions, j, e) = NULL
    /\ j \in DOMAIN jobs
    /\ Lower(jobs[j].job_status) # "quoted"
    /\ jobs[j].customer_id \in DOMAIN customers
    /\ pos # NULL
    /\ jobs[j].customer_latitude # 0

\* C11: a start-job request whose computed distance (driving, or haversine
\* when the lookup fails) exceeds 1000 m is rejected, creates no session and
\* leaves the job status unchanged.
\* (Not so: the handler compares the distance with 800000000.)
FarStartIsRejected ==
    [][\A j \in DOMAIN jobs, e \in Engineers, pos \in EngineerPositions, drv \in DrivingResults :
          (/\ DistanceComputed(j, e, pos)
           /\ StartDistance(pos, jobs[j].customer_latitude, drv) > StatedDistanceLimit) =>
             /\ StartJobResponse(j, e, pos, drv) = "400 location verification failed"
             /\ StartJob(j, e, pos, drv) =>
                    /\ sessions' = sessions
                    /\ jobs'[j].job_status = jobs[j].job_status]_vars

\* C14: after every successful start-job, whether it opened a session or
\* resumed a paused one, the pair has exactly one open session, that session
\* is running, and the job's status is In Progress.
\* (Not so: the resume path leaves the job's status as it was.)
StartedJobIsInProgress ==
    [][\A j \in DOMAIN jobs, e \in Engineers, pos \in EngineerPositions, drv \in DrivingResults :
          (/\ StartJobResponse(j, e, pos, drv) \in {"200 ok", "200 job resumed"}
           /\ StartJob(j, e, pos, drv)) =>
             /\ Cardinality(OpenSessionIds(sessions', j, e)) = 1
             /\ \A i \in OpenSessionIds(sessions', j, e) : ~sessions'[i].is_paused
             /\ jobs'[j].job_status = "In Progress"]_vars

\* C15: pause-job succeeds exactly when the pair has an open session that is
\* running, resume-job exactly when it has an open session that is paused;
\* a rejected pause or resume leaves every session and every job as it was.
PauseResumePreconditions ==
    \A j \in JobIds, e \in Engineers :
        LET open == OpenSessionIds(sessions, j, e)
        IN  /\ PauseJobResponse(j, e) = "200 ok" <=> \E i \in open : ~sessions[i].is_paused
            /\ ResumeJobResponse(j, e) = "200 ok" <=> \E i \in open : sessions[i].is_paused
            /\ PauseJobResponse(j, e) # "200 ok" =>
                  ~ENABLED (PauseJob(j, e) /\ <<sessions, jobs>>' # <<sessions, jobs>>)
            /\ ResumeJobResponse(j, e) # "200 ok" =>
                  ~ENABLED (ResumeJob(j, e) /\ <<sessions, jobs>>' # <<sessions, jobs>>)

\* C15 witness: a session resumed after its quote was approved (job Working)
\* and paused again: a further pause is rejected, a resume accepted
PausedWhileWorking ==
    \E i \in DOMAIN sessions :
        /\ sessions[i].end_time = NULL
        /\ sessions[i].is_paused
        /\ jobs[sessions[i].job_id].job_status = "Working"
        /\ PauseJobResponse(sessions[i].job_id, sessions[i].engineer_id) = "400 already paused"
        /\ ResumeJobResponse(sessions[i].job_id, sessions[i].engineer_id) = "200 ok"

\* C20: verify-location changes no job, customer, session or route; when the
\* job's customer has no coordinates it reports within_range = true, and
\* otherwise within_range is true exactly when the distance between the
\* engineer and the site is at most 500 m.
VerifyLocationReadsOnly ==
    \A j \in DOMAIN jobs, e \in Engineers, pos \in VerifyPositions \ {NULL} :
        LET site == customers[jobs[j].customer_id].latitude
            apart == IF pos >= site THEN pos - site ELSE site - pos
        IN  /\ ~ENABLED (/\ VerifyLocation(j, e, pos)
                         /\ <<jobs, customers, sessions, routes>>' #
                               <<jobs, customers, sessions, routes>>)
            /\ site = NULL => VerifyLocationResponse(j, e, pos) = "200 within range"
            /\ site # NULL =>
                  /\ apart <= 500 => VerifyLocationResponse(j, e, pos) = "200 within range"
                  /\ apart > 500 => VerifyLocationResponse(j, e, pos) = "200 out of range"

\* C20 witness: a job at a geocoded site for which 500 m is within range and
\* 501 m is not
VerifyAtBoundary ==
    \E j \in DOMAIN jobs :
        /\ customers[jobs[j].customer_id].latitude = 1
        /\ VerifyLocationResponse(j, 1, 501) = "200 within range"
        /\ VerifyLocationResponse(j, 1, 502) = "200 out of range"

\* the engineers' requests on jobs of the geocoded customer, without the clock
NextWork ==
    \/ AssignJob(1, 1, 1) /\ Len(jobs') <= MaxJobs
    \/ \E j \in JobIds : AdminApprove(j)
    \/ \E j \in JobIds, e \in Engineers, pos \in EngineerPositions, drv \in DrivingResults :
          StartJob(j, e, pos, drv) /\ Len(sessions') <= MaxSessions
    \/ \E j \in JobIds, e \in Engineers : PauseJob(j, e)
    \/ \E j \in JobIds, e \in Engineers : ResumeJob(j, e)
    \/ \E j \in JobIds, e \in Engineers : SubmitJobQuote(j, e, 1)
    \/ \E j \in JobIds, e \in Engineers : EndJob(j, e, <<>>, 0)

SpecWork == Init /\ [][NextWork]_vars

\* C13: after every successful end-job for a pair, the pair has no open
\* session, the job is Completed and its customer completed; an end-job for a
\* pair without an open session is answered NotFound and changes neither the
\* job status nor the customer status.
EndJobCompletes ==
    \A j \in JobIds, e \in Engineers :
        /\ OpenSessionIds(sessions, j, e) = {} =>
              EndJobResponse(j, e) = "404 no active time entry"
        /\ ~ENABLED (/\ EndJob(j, e, <<>>, 0)
                     /\ ~(IF EndJobResponse(j, e) = "200 ok"
                          THEN /\ OpenSessionIds(sessions', j, e) = {}
                               /\ j \in DOMAIN jobs'
                               /\ jobs'[j].job_status = "Completed"
                               /\ customers'[jobs'[j].customer_id].status = "completed"
                          ELSE jobs' = jobs /\ customers' = customers))

\* C13 witness: a pair whose only session is closed, its job Completed and
\* the job's customer completed
PairEnded ==
    \E i \in DOMAIN sessions :
        LET j == sessions[i].job_id
        IN  /\ sessions[i].end_time # NULL
            /\ OpenSessionIds(sessions, j, sessions[i].engineer_id) = {}
            /\ jobs[j].job_status = "Completed"
            /\ customers[jobs[j].customer_id].status = "completed"

\* the responses of a start-job that succeeded
StartSucceeded == {"200 ok", "200 job resumed"}

\* C18: each engineer mutator is safely retryable: right after a start-job,
\* pause-job, resume-job, submit-job-quote or end-job succeeded, the same
\* request is rejected by the handler's precondition check, and a rejected
\* request leaves every job, customer and session as it was.
RetryIsRejected ==
    \A j \in JobIds, e \in Engineers :
        /\ \A pos \in EngineerPositions, drv \in DrivingResults :
              ~ENABLED (/\ StartJob(j, e, pos, drv)
                        /\ ~(IF StartJobResponse(j, e, pos, drv) \in StartSucceeded
                             THEN StartJobResponse(j, e, pos, drv)' = "400 already active"
                             ELSE UNCHANGED <<jobs, customers, sessions>>))
        /\ ~ENABLED (/\ PauseJob(j, e)
                     /\ ~(IF PauseJobResponse(j, e) = "200 ok"
                          THEN PauseJobResponse(j, e)' = "400 already paused"
                          ELSE UNCHANGED <<jobs, customers, sessions>>))
        /\ ~ENABLED (/\ ResumeJob(j, e)
                     /\ ~(IF ResumeJobResponse(j, e) = "200 ok"
                          THEN ResumeJobResponse(j, e)' = "400 not paused"
                          ELSE UNCHANGED <<jobs, customers, sessions>>))
        /\ ~ENABLED (/\ SubmitJobQuote(j, e, 1)
                     /\ ~(IF SubmitJobQuoteResponse(j) = "200 ok"
                          THEN SubmitJobQuoteResponse(j)' = "400 quote already submitted"
                          ELSE UNCHANGED <<jobs, customers, sessions>>))
        /\ ~ENABLED (/\ EndJob(j, e, <<>>, 0)
                     /\ ~(IF EndJobResponse(j, e) = "200 ok"
                          THEN EndJobResponse(j, e)' = "404 no active time entry"
                          ELSE UNCHANGED <<jobs, customers, sessions>>))

\* C18 witness: a job just quoted: its session is paused, and a second
\* submit-job-quote and a second pause-job are both rejected
QuotedAndRetried ==
    \E i \in DOMAIN sessions :
        LET j == sessions[i].job_id
            e == sessions[i].engineer_id
        IN  /\ sessions[i].end_time = NULL
            /\ sessions[i].is_paused
            /\ jobs[j].job_status = "Quoted"
            /\ jobs[j].quote # NULL
            /\ SubmitJobQuoteResponse(j) = "400 quote already submitted"
            /\ PauseJobResponse(j, e) = "400 already paused"

\* C19: a failure of the outbound webhook never fails the request and never
\* changes state: submit-job-quote and end-job give the same response whether
\* the webhook is delivered or throws, and their writes, made before the
\* webhook is called, are the same.
WebhookFailureIsSwallowed ==
    \A j \in JobIds, e \in Engineers :
        /\ SubmitJobQuoteReply(j, "throws") = SubmitJobQuoteReply(j, "delivered")
        /\ EndJobReply(j, e, "throws") = EndJobReply(j, e, "delivered")
        /\ SubmitJobQuoteResponse(j) = "200 ok" =>
              /\ \A hook \in WebhookOutcomes : SubmitJobQuoteReply(j, hook) = "200 ok"
              /\ ~ENABLED (SubmitJobQuote(j, e, 1) /\ jobs'[j].job_status # "Quoted")
        /\ EndJobResponse(j, e) = "200 ok" =>
              /\ \A hook \in WebhookOutcomes : EndJobReply(j, e, hook) = "200 ok"
              /\ ~ENABLED (EndJob(j, e, <<>>, 0) /\ jobs'[j].job_status # "Completed")

\* C19 witness: an In Progress job with a running session: a quote and an
\* end-job would both go through and call their webhook
WebhookWouldBeCalled ==
    \E j \in DOMAIN jobs, e \in Engineers :
        /\ jobs[j].job_status = "In Progress"
        /\ OpenSessionIds(sessions, j, e) # {}
        /\ SubmitJobQuoteReply(j, "throws") = "200 ok"
        /\ EndJobReply(j, e, "throws") = "200 ok"

\* the engineers' requests on jobs whose quotes are approved in any spelling
NextApprove ==
    \/ AssignJob(1, 1, 1) /\ Len(jobs') <= MaxJobs
    \/ \E j \in JobIds, spelling \in ApprovedSpellings : AdminApproveAs(j, spelling)
    \/ \E j \in JobIds, e \in Engineers :
          StartJob(j, e, 1, NULL) /\ Len(sessions') <= MaxSessions
    \/ \E j \in JobIds, e \in Engineers : PauseJob(j, e)
    \/ \E j \in JobIds, e \in Engineers : ResumeJob(j, e)
    \/ \E j \in JobIds, e \in Engineers : SubmitJobQuote(j, e, 1)
    \/ \E j \in JobIds, e \in Engineers : EndJob(j, e, <<>>, 0)

SpecApprove == Init /\ [][NextApprove]_vars

\* C25: a successful resume-job on a session whose job is Approved, in any
\* letter case, changes the job's status to Working; a successful resume-job
\* on a job in any other status leaves the status as it was.
ResumePromotesApproved ==
    \A j \in DOMAIN jobs, e \in Engineers :
        ResumeJobResponse(j, e) = "200 ok" =>
           ~ENABLED (/\ ResumeJob(j, e)
                     /\ jobs'[j].job_status #
                           (IF jobs[j].job_status \in ApprovedSpellings
                            THEN "Working" ELSE jobs[j].job_status))

\* C25 witness: a paused session on a job whose approval was written in lower
\* case, and a resume-job for it that would be accepted
ApprovedInLowerCase ==
    \E j \in DOMAIN jobs, e \in Engineers :
        /\ jobs[j].job_status = "approved"
        /\ ResumeJobResponse(j, e) = "200 ok"

\* the same requests on one job as the clock advances
NextTime ==
    \/ Tick
    \/ AssignJob(1, 1, 1) /\ Len(jobs') <= 1
    \/ \E j \in JobIds : AdminApprove(j)
    \/ \E j \in JobIds, e \in Engineers :
          StartJob(j, e, 1, NULL) /\ Len(sessions') <= MaxTimedSessions
    \/ \E j \in JobIds, e \in Engineers : PauseJob(j, e)
    \/ \E j \in JobIds, e \in Engineers : ResumeJob(j, e)
    \/ \E j \in JobIds, e \in Engineers : SubmitJobQuote(j, e, 1)
    \/ \E j \in JobIds, e \in Engineers : EndJob(j, e, <<>>, 0)

SpecTime == Init /\ [][NextTime]_vars

\* C4 as stated: once a session is paused, accumulated_minutes is the time it
\* has spent running (the sum of its running segments), in whole minutes.
\* (Not so: every segment is cut to whole minutes before it is added.)
AccumulatedIsRunningTime ==
    \A i \in DOMAIN sessions :
        (sessions[i].end_time = NULL /\ sessions[i].is_paused) =>
            sessions[i].accumulated_minutes = sessions[i].run_ticks \div TicksPerMinute

\* C4: after any number of pause/resume cycles the accumulated_minutes of an
\* open session is the sum, over its finished running segments, of each
\* segment's whole minutes; paused time adds nothing.
AccumulatedIsSegmentMinutes ==
    \A i \in DOMAIN sessions :
        sessions[i].end_time = NULL =>
            sessions[i].accumulated_minutes = sessions[i].run_minutes

\* C4 witness: a session paused for the second time, after two running
\* segments and a pause between them, that banked less than it ran
TwoSegmentsBanked ==
    \E i \in DOMAIN sessions :
        /\ sessions[i].end_time = NULL
        /\ sessions[i].is_paused
        /\ sessions[i].run_ticks < sessions[i].pause_start_time - sessions[i].start_time
        /\ sessions[i].accumulated_minutes < sessions[i].run_ticks \div TicksPerMinute

\* engineer 1 working and quoting on one job as the clock advances
NextQuote ==
    \/ Tick
    \/ AssignJob(1, 1, 1) /\ Len(jobs') <= 1
    \/ \E j \in JobIds : AdminApprove(j)
    \/ \E j \in JobIds : StartJob(j, 1, 1, NULL) /\ Len(sessions') <= MaxTimedSessions
    \/ \E j \in JobIds : PauseJob(j, 1)
    \/ \E j \in JobIds : ResumeJob(j, 1)
    \/ \E j \in JobIds : SubmitJobQuote(j, 1, 1)
    \/ \E j \in JobIds : EndJob(j, 1, <<>>, 0)
    \/ \E e \in Engineers : ActiveJob(e)

SpecQuote == Init /\ [][NextQuote]_vars

\* C16: after a successful submit-job-quote for a pair whose open session is
\* running, the job is Quoted and that session is still open, paused, with
\* accumulated_minutes increased by the whole minutes since the last start or
\* resume; no session is added.
QuotePausesSession ==
    \A j \in DOMAIN jobs, e \in Engineers :
        LET i == Single(OpenSessionIds(sessions, j, e))
        IN  (/\ i # NULL
             /\ ~sessions[i].is_paused
             /\ SubmitJobQuoteResponse(j) = "200 ok") =>
               ~ENABLED (/\ SubmitJobQuote(j, e, 1)
                         /\ ~(/\ jobs'[j].job_status = "Quoted"
                              /\ Len(sessions') = Len(sessions)
                              /\ sessions'[i].end_time = NULL
                              /\ sessions'[i].is_paused
                              /\ sessions'[i].accumulated_minutes =
                                     sessions[i].accumulated_minutes
                                       + (now - LastActionTime(sessions[i])) \div TicksPerMinute))

\* C16 witness: a Quoted job whose session is open and paused after one
\* running segment of at least a minute, all of it banked
QuotedWithBankedMinute ==
    \E i \in DOMAIN sessions :
        /\ jobs[sessions[i].job_id].job_status = "Quoted"
        /\ sessions[i].end_time = NULL
        /\ sessions[i].is_paused
        /\ sessions[i].run_ticks = sessions[i].pause_start_time - sessions[i].start_time
        /\ sessions[i].accumulated_minutes >= 1

\* submit-job-quote for (j, e) would bank a pause on the pair's running
\* session and then fail its conditional update
QuoteFailsAfterPause(j, e) ==
    LET i == Single(OpenSessionIds(sessions, j, e))
    IN  /\ i # NULL
        /\ ~sessions[i].is_paused
        /\ SubmitJobQuoteResponse(j) \notin {"200 ok", "400 quote already submitted"}

\* C17: when submit-job-quote has banked a pause on a running session and its
\* conditional update then fails, the session is written back to the values
\* it had (accumulated_minutes, is_paused = false, pause_start_time): the
\* rejected request leaves the session, and the job, as they were.
QuoteRollbackRestores ==
    \A j \in DOMAIN jobs, e \in Engineers :
        QuoteFailsAfterPause(j, e) =>
           LET row == sessions[Single(OpenSessionIds(sessions, j, e))]
           IN  /\ QuotePausedRow(row, now).is_paused
               /\ QuoteRolledBackRow(QuotePausedRow(row, now), row) = row
               /\ ~ENABLED (/\ SubmitJobQuote(j, e, 1)
                            /\ <<sessions, jobs>>' # <<sessions, jobs>>)

\* C17 witness: a Working job whose session has been running for a minute or
\* more: a quote submitted now banks that minute, fails and must undo it
RunningWhileWorking ==
    \E j \in DOMAIN jobs, e \in Engineers :
        /\ QuoteFailsAfterPause(j, e)
        /\ jobs[j].job_status = "Working"
        /\ LET row == sessions[Single(OpenSessionIds(sessions, j, e))]
           IN  QuotePausedRow(row, now).accumulated_minutes > row.accumulated_minutes

\* C24: the active-job read reports current_total_minutes = accumulated_minutes
\* plus the whole minutes since the session last began to run when it is
\* running, and accumulated_minutes when it is paused; while the session stays
\* paused the reported total does not change as time advances, and the read
\* changes no record.
ActiveJobTotal ==
    \A e \in Engineers :
        /\ ~ENABLED (ActiveJob(e) /\ vars' # vars)
        /\ ActiveEntries(e) = {} => ActiveJobResponse(e, NULL).status = "404 no active timer"
        /\ \A i \in ActiveEntries(e) :
              LET row == sessions[i]
                  reply == ActiveJobResponse(e, i)
              IN  /\ reply.status = "200 ok"
                  /\ row.is_paused => reply.current_total_minutes = row.accumulated_minutes
                  /\ ~row.is_paused =>
                        reply.current_total_minutes =
                           row.accumulated_minutes + (now - row.run_since) \div TicksPerMinute
                  /\ row.is_paused =>
                        ~ENABLED (/\ Tick
                                  /\ ActiveJobResponse(e, i)'.current_total_minutes
                                        # reply.current_total_minutes)

\* C24 witness: a session that ran for a while and has been paused for a
\* minute or more, read with the total it had when paused
PausedForAMinute ==
    \E i \in DOMAIN sessions :
        /\ i \in ActiveEntries(sessions[i].engineer_id)
        /\ sessions[i].is_paused
        /\ sessions[i].run_ticks >= 1
        /\ now - sessions[i].pause_start_time >= TicksPerMinute
        /\ ActiveJobResponse(sessions[i].engineer_id, i).current_total_minutes
              = sessions[i].accumulated_minutes

\* the requests of engineer 1 on one job as the clock advances, with end-job's
\* manual duration and adjustment
NextEnd ==
    \/ Tick
    \/ AssignJob(1, 1, 1) /\ Len(jobs') <= 1
    \/ \E j \in JobIds : StartJob(j, 1, 1, NULL) /\ Len(sessions') <= MaxTimedSessions
    \/ \E j \in JobIds : PauseJob(j, 1)
    \/ \E j \in JobIds : ResumeJob(j, 1)
    \/ \E j \in JobIds, manual \in ManualInputs, adj \in Adjustments : EndJob(j, 1, manual, adj)

SpecEnd == Init /\ [][NextEnd]_vars

\* the minutes end-job counts for a session at time t: what was banked, plus
\* the whole minutes since the last start or resume when it is running
CountedMinutes(row, t) ==
    row.accumulated_minutes
      + (IF row.is_paused THEN 0 ELSE (t - LastActionTime(row)) \div TicksPerMinute)

\* the session end-job closes for (j, e) has duration d and method m
EndedWith(j, e, d, m) ==
    LET i == Single(OpenSessionIds(sessions, j, e))
    IN  /\ sessions'[i].end_time = now
        /\ sessions'[i].duration_minutes = d
        /\ sessions'[i].calculation_method = m

\* C12 as stated: end-job stores the counted minutes; a manual duration >= 0
\* replaces them (manual_override); otherwise a non-zero adjustment is added
\* to them (adjusted); otherwise the method is automatic.
\* (Not so: an adjusted total below zero is stored as 0.)
EndJobDurationAdded ==
    [][\A j \in DOMAIN jobs, manual \in ManualInputs, adj \in Adjustments :
          (EndJobResponse(j, 1) = "200 ok" /\ EndJob(j, 1, manual, adj)) =>
             LET counted == CountedMinutes(sessions[Single(OpenSessionIds(sessions, j, 1))], now)
             IN  IF manual # <<>> /\ manual[1] >= 0
                 THEN EndedWith(j, 1, manual[1], "manual_override")
                 ELSE IF adj # 0
                 THEN EndedWith(j, 1, counted + adj, "adjusted")
                 ELSE EndedWith(j, 1, counted, "automatic")]_vars

\* C12: end-job stores the counted minutes; a manual duration >= 0 replaces
\* them (manual_override); otherwise a non-zero adjustment is added to them,
\* the sum not going below 0 (adjusted); otherwise the method is automatic.
EndJobDuration ==
    [][\A j \in DOMAIN jobs, manual \in ManualInputs, adj \in Adjustments :
          (EndJobResponse(j, 1) = "200 ok" /\ EndJob(j, 1, manual, adj)) =>
             LET counted == CountedMinutes(sessions[Single(OpenSessionIds(sessions, j, 1))], now)
             IN  IF manual # <<>> /\ manual[1] >= 0
                 THEN EndedWith(j, 1, manual[1], "manual_override")
                 ELSE IF adj # 0
                 THEN EndedWith(j, 1, IF counted + adj < 0 THEN 0 ELSE counted + adj, "adjusted")
                 ELSE EndedWith(j, 1, counted, "automatic")]_vars

\* C12 witness: a session closed by an adjusted end-job that stored exactly
\* the minutes it ran: a negative adjustment of a zero total, stored as 0
AdjustedAtZero ==
    \E i \in DOMAIN sessions :
        /\ sessions[i].end_time # NULL
        /\ sessions[i].calculation_method = "adjusted"
        /\ sessions[i].run_minutes = 0
        /\ sessions[i].duration_minutes = 0

\* complete, non-overlapping requests of the route handlers on the routes of
\* engineer 1, with the job handlers by which engineer 1 brings a route's
\* jobs to completion
NextRoute ==
    \/ \E c \in Customers : AssignJob(c, 1, 1) /\ Len(jobs') <= MaxRouteJobs
    \/ \E list \in CustomerLists :
          RouteAssign(1, list) /\ Len(routes') <= MaxRoutes /\ Len(jobs') <= MaxRouteJobs
    \/ \E e \in Engineers, r \in RouteIds : RouteStart(e, r)
    \/ \E e \in Engineers, r \in RouteIds : RouteComplete(e, r)
    \/ \E e \in Engineers, r \in RouteIds : RouteCancel(e, r)
    \/ \E j \in JobIds : StartJob(j, 1, 1, NULL) /\ Len(sessions') <= MaxSessions
    \/ \E j \in JobIds : EndJob(j, 1, <<>>, 0)
    \/ \E e \in Engineers : GetRoutes(e)
    \/ \E e \in Engineers, r \in RouteIds : GetRoute(e, r)

SpecRoute == Init /\ [][NextRoute]_vars

\* every job linked to route r satisfies isJobCompleted
AllJobsCompleted(r) == \A i \in JobsOfRoute(jobs, r) : isJobCompleted(jobs[i].job_status)

\* C7 as stated: for an in_progress route of the requesting engineer, complete
\* succeeds exactly when every linked job satisfies isJobCompleted, a route
\* without jobs included.
\* (Not so: a route without jobs is rejected.)
CompleteIffAllJobsCompleted ==
    [][\A e \in Engineers, r \in DOMAIN routes :
          (routes[r].engineer_id = e /\ routes[r].status = "in_progress") =>
             /\ RouteCompleteResponse(e, r) = "200 ok" <=> AllJobsCompleted(r)
             /\ RouteComplete(e, r) =>
                    /\ routes'[r].status = "completed"
                    /\ routes'[r].completed_at = now]_vars

\* C7: for an in_progress route of the requesting engineer, complete succeeds
\* (the route becomes completed, completed_at stamped) exactly when the route
\* has at least one linked job and every linked job satisfies isJobCompleted.
CompleteIffJobsAndAllCompleted ==
    [][\A e \in Engineers, r \in DOMAIN routes :
          (routes[r].engineer_id = e /\ routes[r].status = "in_progress") =>
             /\ RouteCompleteResponse(e, r) = "200 ok"
                    <=> (JobsOfRoute(jobs, r) # {} /\ AllJobsCompleted(r))
             /\ RouteComplete(e, r) =>
                    /\ routes'[r].status = "completed"
                    /\ routes'[r].completed_at = now]_vars

\* C7 witness: a route completed over two linked jobs
RouteCompletedOverJobs ==
    \E r \in DOMAIN routes :
        /\ routes[r].status = "completed"
        /\ routes[r].completed_at # NULL
        /\ Cardinality(JobsOfRoute(jobs, r)) = 2
        /\ AllJobsCompleted(r)

\* the status changes a route may make
RouteEdges ==
    {<<"scheduled", "in_progress">>, <<"in_progress", "completed">>, <<"scheduled", "cancelled">>}

\* C8: over any sequence of route start, complete and cancel requests a
\* route's status changes only along scheduled -> in_progress, in_progress ->
\* completed and scheduled -> cancelled, and a start or cancel request on a
\* route that is in_progress, completed or cancelled is rejected and leaves
\* the route, its jobs and its customers unchanged.
RouteStatusEdges ==
    [][(\A r \in DOMAIN routes :
           /\ r \in DOMAIN routes'
           /\ routes'[r].status # routes[r].status =>
                  <<routes[r].status, routes'[r].status>> \in RouteEdges)
       /\ (\A e \in Engineers, r \in DOMAIN routes :
             (routes[r].engineer_id = e /\ routes[r].status # "scheduled") =>
                /\ RouteStartResponse(e, r) = "400 cannot start route"
                /\ RouteCancelResponse(e, r) = "400 cannot cancel route"
                /\ (RouteStart(e, r) \/ RouteCancel(e, r)) =>
                       UNCHANGED <<routes, jobs, customers>>)]_vars

\* C8 witness: a route that went scheduled -> in_progress -> completed
RouteWentThrough ==
    \E r \in DOMAIN routes :
        /\ routes[r].status = "completed"
        /\ routes[r].started_at # NULL
        /\ routes[r].cancelled_at = NULL

\* C10: cancelling a scheduled route leaves the route cancelled, every linked
\* job Cancelled with route_id and route_order cleared, every linked customer
\* new with assigned_engineer and scheduled_time cleared, and every other job
\* and customer as it was.
CancelCascade ==
    [][\A e \in Engineers, r \in DOMAIN routes :
          (/\ routes[r].engineer_id = e
           /\ routes[r].status = "scheduled"
           /\ RouteCancel(e, r)) =>
             LET linked == JobsOfRoute(jobs, r)
                 linkedCustomers == {jobs[i].customer_id : i \in linked}
             IN  /\ routes'[r].status = "cancelled"
                 /\ DOMAIN jobs' = DOMAIN jobs
                 /\ \A i \in linked :
                        /\ jobs'[i].job_status = "Cancelled"
                        /\ jobs'[i].route_id = NULL
                        /\ jobs'[i].route_order = NULL
                 /\ \A i \in DOMAIN jobs \ linked : jobs'[i] = jobs[i]
                 /\ \A c \in linkedCustomers :
                        /\ customers'[c].status = "new"
                        /\ customers'[c].assigned_engineer = NULL
                        /\ customers'[c].scheduled_time = NULL
                 /\ \A c \in DOMAIN customers \ linkedCustomers :
                        customers'[c] = customers[c]]_vars

\* C10 witness: a cancelled route whose two jobs, of two customers, are
\* Cancelled and unlinked and whose customers are back to new
RouteCancelledWithJobs ==
    \E r \in DOMAIN routes, a, b \in DOMAIN jobs :
        /\ routes[r].status = "cancelled"
        /\ jobs[a].customer_id # jobs[b].customer_id
        /\ \A i \in {a, b} :
              /\ jobs[i].job_status = "Cancelled"
              /\ jobs[i].route_id = NULL
              /\ customers[jobs[i].customer_id].status = "new"
              /\ customers[jobs[i].customer_id].assigned_engineer = NULL

\* C22: the flags returned by the engineer's route reads agree with the
\* guards of the transitions in the same state: can_start is true exactly when
\* a start request would be accepted, can_cancel exactly when a cancel would,
\* can_complete exactly when a complete would; the reads change no record and
\* the route row holds none of the flags.
RouteFlagsMatchGuards ==
    \A e \in Engineers, r \in RouteIds :
        /\ ~ENABLED (GetRoutes(e) /\ vars' # vars)
        /\ ~ENABLED (GetRoute(e, r) /\ vars' # vars)
        /\ GetRouteResponse(e, r) = "200 ok" <=> r \in DOMAIN GetRoutesResponse(e)
        /\ GetRouteResponse(e, r) = "200 ok" =>
              /\ GetRoutesResponse(e)[r] = RouteView(r)
              /\ RouteView(r).can_start <=> RouteStartResponse(e, r) = "200 ok"
              /\ RouteView(r).can_cancel <=> RouteCancelResponse(e, r) = "200 ok"
              /\ RouteView(r).can_complete <=> RouteCompleteResponse(e, r) = "200 ok"
              /\ DOMAIN routes[r] \cap {"can_start", "can_cancel", "can_complete"} = {}

\* C22 witness: a started route whose jobs are all completed, read with
\* can_complete set and the other two flags clear
RouteReadyToComplete ==
    \E r \in DOMAIN routes :
        /\ routes[r].status = "in_progress"
        /\ JobsOfRoute(jobs, r) # {}
        /\ RouteView(r).can_complete
        /\ ~RouteView(r).can_start
        /\ ~RouteView(r).can_cancel

\* the admin's assignments: manual assignments, route assignments whose
\* writes may fail in the store, and cancellations
NextAssign ==
    \/ \E c \in Customers \cup {NoCustomer}, e \in Engineers :
          AssignJob(c, e, 1) /\ Len(jobs') <= MaxRouteJobs
    \/ \E e \in Engineers, list \in CustomerLists, routeFails \in BOOLEAN :
          \E faults \in FaultLists(list) :
             /\ RouteAssignWith(e, list, faults, routeFails)
             /\ Len(routes') <= MaxRoutes
             /\ Len(jobs') <= MaxRouteJobs
    \/ \E e \in Engineers, r \in RouteIds : RouteCancel(e, r)

SpecAssign == Init /\ [][NextAssign]_vars

\* C26: a manual assignment for a customer id that does not exist is answered
\* NotFound, creates no job and changes no customer; a successful assignment
\* adds exactly one job, with status Assigned and for that customer, and sets
\* the customer's status to assigned with the chosen engineer.
AssignJobCreatesOne ==
    \A c \in Customers \cup {NoCustomer}, e \in Engineers, lat \in JobLatitudes :
        IF c \notin DOMAIN customers
        THEN /\ AssignJobResponse(c) = "404 customer not found"
             /\ ~ENABLED (AssignJob(c, e, lat) /\ <<jobs, customers>>' # <<jobs, customers>>)
        ELSE /\ AssignJobResponse(c) = "200 ok"
             /\ ~ENABLED (/\ AssignJob(c, e, lat)
                          /\ ~(/\ Len(jobs') = Len(jobs) + 1
                               /\ SubSeq(jobs', 1, Len(jobs)) = jobs
                               /\ jobs'[Len(jobs')].job_status = "Assigned"
                               /\ jobs'[Len(jobs')].customer_id = c
                               /\ customers'[c].status = "assigned"
                               /\ customers'[c].assigned_engineer = e
                               /\ \A d \in DOMAIN customers \ {c} : customers'[d] = customers[d]))

\* C26 witness: a job assigned by hand to engineer 2, its customer assigned to
\* engineer 2, while the other customer is still new
AssignedByHand ==
    \E i \in DOMAIN jobs :
        /\ jobs[i].route_id = NULL
        /\ jobs[i].job_status = "Assigned"
        /\ jobs[i].engineer_uuid = 2
        /\ customers[jobs[i].customer_id].status = "assigned"
        /\ customers[jobs[i].customer_id].assigned_engineer = 2
        /\ \E d \in DOMAIN customers : customers[d].status = "new"

\* C21: a route assignment with a list of k jobs creates exactly one route,
\* in status scheduled, and processes every listed job: jobs_assigned plus the
\* number of errors is k, every created job carries the new route's id and
\* status Assigned, and every customer of a created job is assigned to the
\* engineer afterwards.
\* (Not so: a customer update that fails is only logged, and the job stays.)
RouteAssignProcessesAll ==
    \A e \in Engineers, list \in CustomerLists, routeFails \in BOOLEAN :
        \A faults \in FaultLists(list) :
            LET reply == RouteAssignReply(e, list, faults, routeFails)
                r == Len(routes) + 1
            IN  reply.status = "200 ok" =>
                  ~ENABLED (/\ RouteAssignWith(e, list, faults, routeFails)
                            /\ ~(/\ Len(routes') = Len(routes) + 1
                                 /\ routes'[r].status = "scheduled"
                                 /\ reply.jobs_assigned + reply.errors = Len(list)
                                 /\ Len(jobs') = Len(jobs) + reply.jobs_assigned
                                 /\ \A i \in DOMAIN jobs' \ DOMAIN jobs :
                                       /\ jobs'[i].route_id = r
                                       /\ jobs'[i].job_status = "Assigned"
                                       /\ customers'[jobs'[i].customer_id].status = "assigned"
                                       /\ customers'[jobs'[i].customer_id].assigned_engineer = e))

\* geocoding and route sequencing, with manual assignments in between
NextOptimize ==
    \/ \E c \in Customers \cup {NoCustomer}, e \in Engineers, lat \in JobLatitudes :
          AssignJob(c, e, lat) /\ Len(jobs') <= MaxRouteJobs
    \/ \E c \in Customers \cup {NoCustomer}, loc \in GeocodeResults : Geocode(c, loc)
    \/ \E e \in Engineers, job_ids \in JobIdLists, directions \in DirectionsStatuses :
          Optimize(e, job_ids, directions)

SpecOptimize == Init /\ [][NextOptimize]_vars

\* the listed ids whose customer has coordinates, in the order listed
RECURSIVE GeocodedListed(_, _)
GeocodedListed(job_ids, k) ==
    IF k > Len(job_ids) THEN <<>>
    ELSE LET c == ToNumber(job_ids[k])
         IN  IF c \in DOMAIN customers /\ customers[c].latitude # NULL
             THEN <<c>> \o GeocodedListed(job_ids, k + 1)
             ELSE GeocodedListed(job_ids, k + 1)

\* C23: route sequencing returns the listed jobs that have coordinates in
\* the order the caller listed them, numbered 1..n, the jobs without
\* coordinates dropped; it fails without a result when no listed job has
\* coordinates, and the last returned job is the destination.
\* (Not so: an id sent as a string selects its customer but never matches it
\* in the ordering, so a listed job with coordinates is dropped or the
\* request fails.)
OptimizeKeepsListedOrder ==
    \A e \in LocatedEngineers, job_ids \in JobIdLists \ {<<>>} :
        LET expected == GeocodedListed(job_ids, 1)
            reply == OptimizeResponse(e, job_ids, "OK")
        IN  IF expected = <<>>
            THEN reply.status # "200 ok" /\ reply.optimizedJobs = <<>>
            ELSE /\ reply.status = "200 ok"
                 /\ reply.optimizedJobs = [i \in DOMAIN expected |-> [id |-> expected[i], order |-> i]]
                 /\ reply.destination = expected[Len(expected)]

\* the opening hours customer 1 may have on record
OpeningHoursInputs ==
    { <<>>,
      TimeNotSpecified,
      <<"C", "l", "o", "s", "e", "d">>,
      <<"2", "4", " ", "h", "o", "u", "r", "s">>,
      <<"9", " ", "A", "M", " ", "-", " ", "6", " ", "P", "M">>,
      <<"9", "a", "m", " ", "t", "o", " ", "6", "p", "m">>,
      <<"0", "8", ":", "0", "0", "-", "1", "8", ":", "0", "0">>,
      <<"0", "9", "0", "0", "-", "1", "8", "3", "0">>,
      <<"1", "2", " ", "A", "M", " ", "-", " ", "6", " ", "A", "M">>,
      <<"1", "2", " ", "P", "M", " ", "-", " ", "1", "1", ":", "5", "9", " ", "P", "M">>,
      <<"9", "-", "5">> }

\* the minutes of the day at which a request may arrive: 00:30, 06:00, 06:01,
\* 08:00, 08:59, 09:00, 12:00, 18:00, 18:01, 18:30, 23:59
ClockMinutes == {30, 360, 361, 480, 539, 540, 720, 1080, 1081, 1110, 1439}

\* customer 1 has opening hours on record and the clock reads some time of day
InitHours ==
    /\ now \in {m * TicksPerMinute : m \in ClockMinutes}
    /\ \E hours \in OpeningHoursInputs :
          customers = [c \in Customers |->
                         IF c = 1 THEN [NewCustomer(c) EXCEPT !.Opening_Hours = hours]
                         ELSE NewCustomer(c)]
    /\ jobs = <<>>
    /\ sessions = <<>>
    /\ routes = <<>>
    /\ procs = IdleProcs

\* the time verification of start-job alone, on what the clock reads
CheckOpeningHours(c, currentTime) ==
    /\ c \in DOMAIN customers
    /\ isWithinOpeningHours(customers[c].Opening_Hours, currentTime) \in BOOLEAN
    /\ UNCHANGED vars

\* a job of customer 1, started at some time of day
NextHours ==
    \/ AssignJob(1, 1, 1) /\ Len(jobs') <= MaxJobs
    \/ \E j \in JobIds : StartJob(j, 1, 1, NULL) /\ Len(sessions') <= MaxTimedSessions
    \/ \E c \in Customers, currentTime \in LocaleTimeStrings(MinuteOfDay(now)) :
          CheckOpeningHours(c, currentTime)

SpecHours == InitHours /\ [][NextHours]_vars

\* the minute of the day a match stands for
MinuteOfMatch(match) == Hour24(match) * 60 + ParseInt(match.minutes)

\* C27: isWithinOpeningHours returns true, whatever the time, for an input
\* that is empty, that is "Time not specified" or that holds fewer than two
\* time tokens; with two or more tokens it returns true exactly when the
\* current time of day lies in the window of the first two tokens, both ends
\* included.
\* (Not so: in the first hour of the day the clock may read 24:mm, which lies
\* in no window that starts at midnight.)
WithinHoursIsWindow ==
    \A currentTime \in LocaleTimeStrings(MinuteOfDay(now)) :
        LET openingHours == customers[1].Opening_Hours
            matches == Matches(openingHours, 1)
        IN  IF openingHours = <<>> \/ openingHours = TimeNotSpecified \/ Len(matches) < 2
            THEN isWithinOpeningHours(openingHours, currentTime)
            ELSE isWithinOpeningHours(openingHours, currentTime)
                   <=> /\ MinuteOfMatch(matches[1]) <= MinuteOfDay(now)
                       /\ MinuteOfDay(now) <= MinuteOfMatch(matches[2])

\* ------------------------------------------------------- overlapping requests
\* A request in flight performs its store operations one at a time, in the
\* order of its handler; between two of them any other request may act.  Each
\* of the Procs carries one request from its first read to its response.
Done(p, resp) == [procs[p] EXCEPT !.pc = "done", !.response = resp]

\* start-job: the read of the pair's open session
StartReadExisting(p, j, e) ==
    LET existingEntry == ExistingEntry(sessions, j, e)
        req == [procs[p] EXCEPT !.op = "start-job", !.job = j, !.engineer = e]
    IN  /\ procs[p].pc = "idle"
        /\ procs' = [procs EXCEPT ![p] =
              IF existingEntry = NULL THEN [req EXCEPT !.pc = "start_check"]
              ELSE IF sessions[existingEntry].is_paused
              THEN [req EXCEPT !.pc = "start_resume", !.entry = existingEntry]
              ELSE [req EXCEPT !.pc = "done", !.response = "400 already active"]]
        /\ UNCHANGED <<now, customers, jobs, sessions, routes>>

\* start-job: the update that resumes the paused session it read
StartResume(p) ==
    /\ procs[p].pc = "start_resume"
    /\ sessions' = Track(sessions,
          [sessions EXCEPT ![procs[p].entry] = StartResumedRow(sessions[procs[p].entry], now)],
          now)
    /\ procs' = [procs EXCEPT ![p] = Done(p, "200 job resumed")]
    /\ UNCHANGED <<now, customers, jobs, routes>>

\* start-job: the reads of the job and its customer, and the checks on them
StartCheck(p, pos, drv) ==
    LET resp == StartJobCheck(jobs, customers, now, procs[p].job, pos, drv)
    IN  /\ procs[p].pc = "start_check"
        /\ procs' = [procs EXCEPT ![p] =
              IF resp = "200 ok" THEN [procs[p] EXCEPT !.pc = "start_insert"]
              ELSE Done(p, resp)]
        /\ UNCHANGED <<now, customers, jobs, sessions, routes>>

\* start-job: the insert of the new session
StartInsert(p) ==
    /\ procs[p].pc = "start_insert"
    /\ sessions' = Append(sessions, NewSession(procs[p].job, procs[p].engineer, now))
    /\ procs' = [procs EXCEPT ![p].pc = "start_status"]
    /\ UNCHANGED <<now, customers, jobs, routes>>

\* start-job: the update of the job's status
StartSetStatus(p) ==
    /\ procs[p].pc = "start_status"
    /\ jobs' = [jobs EXCEPT ![procs[p].job].job_status = "In Progress"]
    /\ procs' = [procs EXCEPT ![p] = Done(p, "200 ok")]
    /\ UNCHANGED <<now, customers, sessions, routes>>

\* submit-job-quote: the read of the job's status and the first guard
QuoteReadJob(p, j, e, payload) ==
    LET status == IF j \in DOMAIN jobs THEN jobs[j].job_status ELSE ""
        req == [procs[p] EXCEPT !.op = "submit-job-quote", !.job = j, !.engineer = e,
                                !.payload = payload, !.seen = status]
    IN  /\ procs[p].pc = "idle"
        /\ procs' = [procs EXCEPT ![p] =
              IF QuoteAlreadySubmitted(Lower(status))
              THEN [req EXCEPT !.pc = "done", !.response = "400 quote already submitted"]
              ELSE [req EXCEPT !.pc = "quote_entry"]]
        /\ UNCHANGED <<now, customers, jobs, sessions, routes>>

\* submit-job-quote: the read of the pair's open session
QuoteReadEntry(p) ==
    LET timeEntry == Single(OpenSessionIds(sessions, procs[p].job, procs[p].engineer))
    IN  /\ procs[p].pc = "quote_entry"
        /\ procs' = [procs EXCEPT ![p] =
              IF timeEntry # NULL /\ ~sessions[timeEntry].is_paused
              THEN [procs[p] EXCEPT !.pc = "quote_pause", !.entry = timeEntry,
                                    !.read = <<sessions[timeEntry]>>]
              ELSE [procs[p] EXCEPT !.pc = "quote_update"]]
        /\ UNCHANGED <<now, customers, jobs, sessions, routes>>

\* submit-job-quote: the update that pauses the running session it read
QuotePause(p) ==
    LET written == QuotePausedRow(procs[p].read[1], now)
    IN  /\ procs[p].pc = "quote_pause"
        /\ sessions' = Track(sessions,
              [sessions EXCEPT ![procs[p].entry].accumulated_minutes = written.accumulated_minutes,
                               ![procs[p].entry].is_paused = written.is_paused,
                               ![procs[p].entry].pause_start_time = written.pause_start_time],
              now)
        /\ procs' = [procs EXCEPT ![p].pc = "quote_update"]
        /\ UNCHANGED <<now, customers, jobs, routes>>

\* submit-job-quote: the conditional update of the job
QuoteUpdate(p) ==
    LET resp == QuoteUpdateResponse(QuoteUpdateMatches(jobs, procs[p].job))
    IN  /\ procs[p].pc = "quote_update"
        /\ jobs' = IF resp = "200 ok"
                   THEN [jobs EXCEPT ![procs[p].job].job_status = "Quoted",
                                     ![procs[p].job].quote = procs[p].payload]
                   ELSE jobs
        /\ procs' = [procs EXCEPT ![p] =
              IF resp # "200 ok" /\ procs[p].read # <<>>
              THEN [procs[p] EXCEPT !.pc = "quote_rollback", !.response = resp]
              ELSE Done(p, resp)]
        /\ UNCHANGED <<now, customers, sessions, routes>>

\* submit-job-quote: the update that undoes its pause after a failed update
QuoteRollback(p) ==
    /\ procs[p].pc = "quote_rollback"
    /\ sessions' = Track(sessions,
          [sessions EXCEPT ![procs[p].entry] =
              QuoteRolledBackRow(sessions[procs[p].entry], procs[p].read[1])],
          now)
    /\ procs' = [procs EXCEPT ![p].pc = "done"]
    /\ UNCHANGED <<now, customers, jobs, routes>>

\* route start: the read of the route and the guard on its status
RouteStartRead(p, e, r) ==
    LET resp == RouteStartResponse(e, r)
        req == [procs[p] EXCEPT !.op = "route-start", !.engineer = e, !.route = r]
    IN  /\ procs[p].pc = "idle"
        /\ procs' = [procs EXCEPT ![p] =
              IF resp = "200 ok" THEN [req EXCEPT !.pc = "route_start_write"]
              ELSE [req EXCEPT !.pc = "done", !.response = resp]]
        /\ UNCHANGED <<now, customers, jobs, sessions, routes>>

\* route start: the update of the route, by id
RouteStartWrite(p) ==
    /\ procs[p].pc = "route_start_write"
    /\ routes' = [routes EXCEPT ![procs[p].route].status = "in_progress",
                                ![procs[p].route].started_at = now]
    /\ procs' = [procs EXCEPT ![p] = Done(p, "200 ok")]
    /\ UNCHANGED <<now, customers, jobs, sessions>>

\* route cancel: the read of the route and the guard on its status
RouteCancelRead(p, e, r) ==
    LET resp == RouteCancelResponse(e, r)
        req == [procs[p] EXCEPT !.op = "route-cancel", !.engineer = e, !.route = r]
    IN  /\ procs[p].pc = "idle"
        /\ procs' = [procs EXCEPT ![p] =
              IF resp = "200 ok" THEN [req EXCEPT !.pc = "route_cancel_jobs"]
              ELSE [req EXCEPT !.pc = "done", !.response = resp]]
        /\ UNCHANGED <<now, customers, jobs, sessions, routes>>

\* route cancel: the read of the customer ids of the route's jobs
RouteCancelReadJobs(p) ==
    /\ procs[p].pc = "route_cancel_jobs"
    /\ procs' = [procs EXCEPT
          ![p].pc = "route_cancel_route",
          ![p].customerIds = {jobs[i].customer_id : i \in JobsOfRoute(jobs, procs[p].route)}]
    /\ UNCHANGED <<now, customers, jobs, sessions, routes>>

\* route cancel: the update of the route, by id
RouteCancelWriteRoute(p) ==
    /\ procs[p].pc = "route_cancel_route"
    /\ routes' = [routes EXCEPT ![procs[p].route].status = "cancelled",
                                ![procs[p].route].cancelled_at = now]
    /\ procs' = [procs EXCEPT ![p].pc = "route_cancel_cascade"]
    /\ UNCHANGED <<now, customers, jobs, sessions>>

\* route cancel: the update of the jobs of the route
RouteCancelWriteJobs(p) ==
    /\ procs[p].pc = "route_cancel_cascade"
    /\ jobs' = CancelJobs(jobs, procs[p].route)
    /\ procs' = [procs EXCEPT ![p] =
          IF procs[p].customerIds # {} THEN [procs[p] EXCEPT !.pc = "route_cancel_customers"]
          ELSE Done(p, "200 ok")]
    /\ UNCHANGED <<now, customers, sessions, routes>>

\* route cancel: the update of the customers it read
RouteCancelWriteCustomers(p) ==
    /\ procs[p].pc = "route_cancel_customers"
    /\ customers' = CancelCustomers(customers, procs[p].customerIds)
    /\ procs' = [procs EXCEPT ![p] = Done(p, "200 ok")]
    /\ UNCHANGED <<now, jobs, sessions, routes>>

\* no request is in flight
Quiet == \A p \in Procs : procs[p].pc = "idle"

\* jobs and routes are set up by complete requests while no request is in
\* flight; then the Procs' requests overlap
NextRace ==
    \/ Quiet /\ AssignJob(1, 1, 1) /\ Len(jobs') <= MaxJobs
    \/ Quiet /\ RouteAssign(1, <<1>>) /\ Len(routes') <= MaxRoutes /\ Len(jobs') <= MaxRouteJobs
    \/ \E j \in DOMAIN jobs : Quiet /\ StartJob(j, 1, 1, NULL) /\ Len(sessions') <= MaxSessions
    \/ \E p \in Procs, j \in DOMAIN jobs : StartReadExisting(p, j, 1)
    \/ \E p \in Procs : StartResume(p)
    \/ \E p \in Procs, pos \in EngineerPositions, drv \in DrivingResults : StartCheck(p, pos, drv)
    \/ \E p \in Procs : StartInsert(p) /\ Len(sessions') <= MaxSessions
    \/ \E p \in Procs : StartSetStatus(p)
    \/ \E p \in Procs, j \in DOMAIN jobs, payload \in Payloads : QuoteReadJob(p, j, 1, payload)
    \/ \E p \in Procs : QuoteReadEntry(p)
    \/ \E p \in Procs : QuotePause(p)
    \/ \E p \in Procs : QuoteUpdate(p)
    \/ \E p \in Procs : QuoteRollback(p)
    \/ \E p \in Procs, r \in DOMAIN routes : RouteStartRead(p, 1, r)
    \/ \E p \in Procs : RouteStartWrite(p)
    \/ \E p \in Procs, r \in DOMAIN routes : RouteCancelRead(p, 1, r)
    \/ \E p \in Procs : RouteCancelReadJobs(p)
    \/ \E p \in Procs : RouteCancelWriteRoute(p)
    \/ \E p \in Procs : RouteCancelWriteJobs(p)
    \/ \E p \in Procs : RouteCancelWriteCustomers(p)

SpecRace == Init /\ [][NextRace]_vars

\* C2: also when two start-job requests for the same pair overlap, no two
\* distinct sessions of one (job_id, engineer_id) pair are open at once.
\* (Not so: both requests read "no open session" and both insert.)
NoDuplicateOpenSession ==
    \A a, b \in DOMAIN sessions :
        (/\ sessions[a].job_id = sessions[b].job_id
         /\ sessions[a].engineer_id = sessions[b].engineer_id
         /\ sessions[a].end_time = NULL
         /\ sessions[b].end_time = NULL) => a = b

\* p and q have both answered a submit-job-quote for the same job, which each
\* of them read as In Progress
QuoteRace(p, q) ==
    /\ p # q
    /\ procs[p].pc = "done" /\ procs[q].pc = "done"
    /\ procs[p].op = "submit-job-quote" /\ procs[q].op = "submit-job-quote"
    /\ procs[p].job = procs[q].job
    /\ procs[p].seen = "In Progress" /\ procs[q].seen = "In Progress"

\* C6: of two overlapping submit-job-quote requests for the same In Progress
\* job exactly one succeeds and leaves the job Quoted with its payload; the
\* other is answered Conflict and does not overwrite that payload.
\* (Not so: the loser's zero-row update is an error and it is answered 500.)
QuoteRaceLoserConflicts ==
    \A p, q \in Procs :
        QuoteRace(p, q) =>
            \E w \in {p, q} :
                LET l == CHOOSE x \in {p, q} : x # w
                IN  /\ procs[w].response = "200 ok"
                    /\ procs[l].response \in ConflictResponses
                    /\ jobs[procs[w].job].job_status = "Quoted"
                    /\ jobs[procs[w].job].quote = procs[w].payload

\* C9: also when a start and a cancel request for the same scheduled route
\* overlap, a cancelled route was never started, and a route that is
\* in_progress has not had a cancel request succeed on it (which sets its
\* jobs to Cancelled and its customers to new).
\* (Not so: both requests read scheduled, and both updates go through.)
CancelledOnlyFromScheduled ==
    \A r \in DOMAIN routes :
        /\ routes[r].status = "cancelled" => routes[r].started_at = NULL
        /\ routes[r].status = "in_progress" =>
              ~\E p \in Procs :
                  /\ procs[p].op = "route-cancel"
                  /\ procs[p].route = r
                  /\ procs[p].pc = "done"
                  /\ procs[p].response = "200 ok"

\* ------------------------------------------------------- overlapping end-job and pause-job
\* the fields end-job writes on the session it read, computed from that read
EndedRow(row, t, manual, adj) ==
    LET total == EndTotal(row, t, manual, adj)
    IN  [row EXCEPT !.end_time = t,
                    !.duration_minutes = total.minutes,
                    !.is_paused = FALSE,
                    !.accumulated_minutes = total.minutes,
                    !.calculation_method = total.method]

\* end-job: the read of the pair's open session; the values to write are
\* computed from the row as soon as the read returns
EndRead(p, j, e, manual, adj) ==
    LET entry == Single(OpenSessionIds(sessions, j, e))
        req == [procs[p] EXCEPT !.op = "end-job", !.job = j, !.engineer = e]
    IN  /\ procs[p].pc = "idle"
        /\ procs' = [procs EXCEPT ![p] =
              IF entry = NULL
              THEN [req EXCEPT !.pc = "done", !.response = "404 no active time entry"]
              ELSE [req EXCEPT !.pc = "end_session", !.entry = entry,
                               !.read = <<EndedRow(sessions[entry], now, manual, adj)>>]]
        /\ UNCHANGED <<now, customers, jobs, sessions, routes>>

\* end-job: the update of the session, by id alone
EndWriteSession(p) ==
    LET written == procs[p].read[1]
    IN  /\ procs[p].pc = "end_session"
        /\ sessions' = Track(sessions,
              [sessions EXCEPT ![procs[p].entry].end_time = written.end_time,
                               ![procs[p].entry].duration_minutes = written.duration_minutes,
                               ![procs[p].entry].is_paused = written.is_paused,
                               ![procs[p].entry].accumulated_minutes = written.accumulated_minutes,
                               ![procs[p].entry].calculation_method = written.calculation_method],
              now)
        /\ procs' = [procs EXCEPT ![p].pc = "end_status"]
        /\ UNCHANGED <<now, customers, jobs, routes>>

\* end-job: the update of the job's status
EndSetStatus(p) ==
    /\ procs[p].pc = "end_status"
    /\ jobs' = IF procs[p].job \in DOMAIN jobs
               THEN [jobs EXCEPT ![procs[p].job].job_status = "Completed"]
               ELSE jobs
    /\ procs' = [procs EXCEPT ![p].pc = "end_customer"]
    /\ UNCHANGED <<now, customers, sessions, routes>>

\* end-job: the read of the job's customer and the update of its status
EndSetCustomer(p) ==
    LET j == procs[p].job
    IN  /\ procs[p].pc = "end_customer"
        /\ customers' = IF j \in DOMAIN jobs /\ jobs[j].customer_id \in DOMAIN customers
                        THEN [customers EXCEPT ![jobs[j].customer_id].status = "completed"]
                        ELSE customers
        /\ procs' = [procs EXCEPT ![p] = Done(p, "200 ok")]
        /\ UNCHANGED <<now, jobs, sessions, routes>>

\* pause-job: the read of the pair's open session and the checks on it; the
\* values to write are computed from the row as soon as the read returns
PauseRead(p, j, e) ==
    LET entry == Single(OpenSessionIds(sessions, j, e))
        req == [procs[p] EXCEPT !.op = "pause-job", !.job = j, !.engineer = e]
    IN  /\ procs[p].pc = "idle"
        /\ procs' = [procs EXCEPT ![p] =
              IF PauseJobResponse(j, e) # "200 ok"
              THEN [req EXCEPT !.pc = "done", !.response = PauseJobResponse(j, e)]
              ELSE [req EXCEPT !.pc = "pause_write", !.entry = entry,
                               !.read = <<PausedRow(sessions[entry], now)>>]]
        /\ UNCHANGED <<now, customers, jobs, sessions, routes>>

\* pause-job: the update of the session, by id alone
PauseWrite(p) ==
    LET written == procs[p].read[1]
    IN  /\ procs[p].pc = "pause_write"
        /\ sessions' = Track(sessions,
              [sessions EXCEPT ![procs[p].entry].accumulated_minutes = written.accumulated_minutes,
                               ![procs[p].entry].is_paused = written.is_paused,
                               ![procs[p].entry].pause_start_time = written.pause_start_time],
              now)
        /\ procs' = [procs EXCEPT ![p] = Done(p, "200 ok")]
        /\ UNCHANGED <<now, customers, jobs, routes>>

\* one job is assigned and started while no request is in flight; then
\* end-job and pause-job requests for it overlap as time passes
NextEndRace ==
    \/ Quiet /\ AssignJob(1, 1, 1) /\ Len(jobs') <= MaxJobs
    \/ \E j \in DOMAIN jobs :
          Quiet /\ StartJob(j, 1, 1, NULL) /\ Len(sessions') <= MaxTimedSessions
    \/ Tick
    \/ \E p \in Procs, j \in DOMAIN jobs, manual \in ManualInputs, adj \in Adjustments :
          EndRead(p, j, 1, manual, adj)
    \/ \E p \in Procs : EndWriteSession(p)
    \/ \E p \in Procs : EndSetStatus(p)
    \/ \E p \in Procs : EndSetCustomer(p)
    \/ \E p \in Procs, j \in DOMAIN jobs : PauseRead(p, j, 1)
    \/ \E p \in Procs : PauseWrite(p)

SpecEndRace == Init /\ [][NextEndRace]_vars

\* C28: once a session has end_time set, no later or overlapping request
\* changes its end_time, duration_minutes or accumulated_minutes.
\* (Not so: a second end-job, or a pause-job, that read the session while it
\* was open writes it by id after the first end-job has closed it.)
EndedSessionIsFinal ==
    [][\A i \in DOMAIN sessions :
          sessions[i].end_time # NULL =>
              /\ sessions'[i].end_time = sessions[i].end_time
              /\ sessions'[i].duration_minutes = sessions[i].duration_minutes
              /\ sessions'[i].accumulated_minutes = sessions[i].accumulated_minutes]_vars

\* ------------------------------------------------------- the job lifecycle
\* one complete request of an engineer for the pair (j, e)
EngineerRequest(j, e) ==
    \/ \E pos \in EngineerPositions, drv \in DrivingResults : StartJob(j, e, pos, drv)
    \/ PauseJob(j, e)
    \/ ResumeJob(j, e)
    \/ SubmitJobQuote(j, e, 1)
    \/ EndJob(j, e, <<>>, 0)

\* the request takes a completed job back to a status that is not completed
LeavesCompleted(k) ==
    /\ isJobCompleted(jobs[k].job_status)
    /\ ~isJobCompleted(jobs'[k].job_status)

\* the request takes a Quoted job past the approval
SkipsApproval(k) ==
    /\ Lower(jobs[k].job_status) = "quoted"
    /\ jobs'[k].job_status \in {"In Progress", "Working", "Completed"}

\* C29: no engineer request (start-job, pause-job, resume-job,
\* submit-job-quote, end-job) takes a job whose status satisfies
\* isJobCompleted back to a status that does not, and none takes a Quoted job
\* to In Progress, Working or Completed.
\* (Not so: start-job refuses only Quoted jobs and sets a Completed job to In
\* Progress; end-job completes a Quoted job through its paused session.)
JobStatusMovesForward ==
    \A j \in JobIds, e \in Engineers :
        ~ENABLED (/\ EngineerRequest(j, e)
                  /\ \E k \in DOMAIN jobs : LeavesCompleted(k) \/ SkipsApproval(k))

\* ------------------------------------------------------- sessions of quoted jobs
\* a job is assigned by the office; then only start-job, pause-job,
\* resume-job and submit-job-quote requests of the engineers follow, as time
\* passes
NextSession ==
    \/ Tick
    \/ AssignJob(1, 1, 1) /\ Len(jobs') <= MaxJobs
    \/ \E j \in JobIds, e \in Engineers :
          StartJob(j, e, 1, NULL) /\ Len(sessions') <= MaxSessions
    \/ \E j \in JobIds, e \in Engineers : PauseJob(j, e)
    \/ \E j \in JobIds, e \in Engineers : ResumeJob(j, e)
    \/ \E j \in JobIds, e \in Engineers, payload \in Payloads : SubmitJobQuote(j, e, payload)

SpecSession == Init /\ [][NextSession]_vars

\* C30: a job whose status is Quoted has no running session: every open
\* session of the job is paused.
\* (Not so: resume-job, and start-job on a paused session, do not look at the
\* job's status and set the session of a Quoted job running.)
QuotedJobIsPaused ==
    \A j \in DOMAIN jobs :
        jobs[j].job_status = "Quoted" =>
            \A i \in DOMAIN sessions :
                (sessions[i].job_id = j /\ sessions[i].end_time = NULL) =>
                    sessions[i].is_paused

\* ------------------------------------------------------- sessions of cancelled and completed jobs
\* C31: a job whose status is Cancelled has no open time-tracking session.
\* (Not so: start-job does not look at the job's route, and the cancel of a
\* scheduled route sets a started job Cancelled without touching its session.)
CancelledJobHasNoOpenSession ==
    \A j \in DOMAIN jobs :
        jobs[j].job_status = "Cancelled" =>
            ~\E i \in DOMAIN sessions :
                sessions[i].job_id = j /\ sessions[i].end_time = NULL

\* C32: a job whose status is Completed has no open time-tracking session,
\* of any engineer.
\* (Not so: sessions are looked up per (job_id, engineer_id) pair, so a second
\* engineer can start the job, and end-job closes only the session of the
\* pair it names.)
CompletedJobHasNoOpenSession ==
    \A j \in DOMAIN jobs :
        jobs[j].job_status = "Completed" =>
            ~\E i \in DOMAIN sessions :
                sessions[i].job_id = j /\ sessions[i].end_time = NULL

\* ------------------------------------------------------- a cancel that overlaps routes/assign
\* routes/assign: the checks and the insert of the scheduled route; payload
\* holds the listed customers and the position the loop has reached
AssignInsertRoute(p, e, list) ==
    LET resp == RouteAssignResponse(e, list)
        req == [procs[p] EXCEPT !.op = "routes-assign", !.engineer = e]
    IN  /\ procs[p].pc = "idle"
        /\ IF resp # "200 ok"
           THEN /\ procs' = [procs EXCEPT ![p] = [req EXCEPT !.pc = "done", !.response = resp]]
                /\ UNCHANGED routes
           ELSE /\ routes' = Append(routes, NewRoute(e))
                /\ procs' = [procs EXCEPT ![p] =
                      [req EXCEPT !.pc = "assign_job", !.route = Len(routes) + 1,
                                  !.payload = [jobs |-> list, next |-> 1]]]
        /\ UNCHANGED <<now, customers, jobs, sessions>>

\* routes/assign: one turn of the loop up to the insert of the job; a
\* customer that is not found is skipped
AssignInsertJob(p) ==
    LET list == procs[p].payload.jobs
        k == procs[p].payload.next
        c == list[k]
        after == [procs[p] EXCEPT !.payload.next = k + 1]
    IN  /\ procs[p].pc = "assign_job"
        /\ IF c \notin DOMAIN customers
           THEN /\ UNCHANGED jobs
                /\ procs' = [procs EXCEPT ![p] =
                      IF k = Len(list) THEN [after EXCEPT !.pc = "done", !.response = "200 ok"]
                      ELSE after]
           ELSE /\ jobs' = Append(jobs,
                      RouteJob(c, procs[p].engineer, procs[p].route, k,
                               IF customers[c].latitude = NULL THEN 0
                               ELSE customers[c].latitude,
                               customers[c].Opening_Hours))
                /\ procs' = [procs EXCEPT ![p].pc = "assign_customer"]
        /\ UNCHANGED <<now, customers, sessions, routes>>

\* routes/assign: the update of the customer of the job just inserted
AssignUpdateCustomer(p) ==
    LET list == procs[p].payload.jobs
        k == procs[p].payload.next
        after == [procs[p] EXCEPT !.payload.next = k + 1]
    IN  /\ procs[p].pc = "assign_customer"
        /\ customers' = [customers EXCEPT ![list[k]].status = "assigned",
                                          ![list[k]].assigned_engineer = procs[p].engineer,
                                          ![list[k]].scheduled_time = 1]
        /\ procs' = [procs EXCEPT ![p] =
              IF k = Len(list) THEN [after EXCEPT !.pc = "done", !.response = "200 ok"]
              ELSE [after EXCEPT !.pc = "assign_job"]]
        /\ UNCHANGED <<now, jobs, sessions, routes>>

\* a routes/assign request and a cancel request of the engineer overlap
NextAssignRace ==
    \/ \E p \in Procs, list \in CustomerLists :
          AssignInsertRoute(p, 1, list) /\ Len(routes') <= MaxRoutes
    \/ \E p \in Procs : AssignInsertJob(p) /\ Len(jobs') <= MaxRouteJobs
    \/ \E p \in Procs : AssignUpdateCustomer(p)
    \/ \E p \in Procs, r \in DOMAIN routes : RouteCancelRead(p, 1, r)
    \/ \E p \in Procs : RouteCancelReadJobs(p)
    \/ \E p \in Procs : RouteCancelWriteRoute(p)
    \/ \E p \in Procs : RouteCancelWriteJobs(p)
    \/ \E p \in Procs : RouteCancelWriteCustomers(p)

SpecAssignRace == Init /\ [][NextAssignRace]_vars

\* C33: every job whose route_id is set refers to a route that is not
\* cancelled; checked in the states where no cancel request stands between
\* its update of the route and its update of the jobs.
\* (Not so: a cancel that runs between the insert of the route and the inserts
\* of its jobs cancels the route, and the loop goes on linking jobs to it.)
JobsReferToLiveRoutes ==
    (\A p \in Procs : procs[p].op = "route-cancel" => procs[p].pc = "done") =>
        \A j \in DOMAIN jobs :
            jobs[j].route_id # NULL =>
                /\ jobs[j].route_id \in DOMAIN routes
                /\ routes[jobs[j].route_id].status # "cancelled"

\* ------------------------------------------------------- the sign of the duration
\* C34: the duration_minutes end-job writes is never negative, and a negative
\* manual_duration_minutes is not written: the request then stores what it
\* would store without a manual value, the counted minutes plus the
\* adjustment and not less than 0.
EndDurationNotNegative ==
    \A j \in DOMAIN jobs, manual \in ManualInputs, adj \in Adjustments :
        LET i == Single(OpenSessionIds(sessions, j, 1))
        IN  i # NULL =>
              ~ENABLED (/\ EndJob(j, 1, manual, adj)
                        /\ \/ sessions'[i].duration_minutes < 0
                           \/ /\ manual # <<>>
                              /\ manual[1] < 0
                              /\ LET sum == CountedMinutes(sessions[i], now) + adj
                                 IN  sessions'[i].duration_minutes #
                                        (IF sum < 0 THEN 0 ELSE sum))

\* C34 witness: a session that ran for less than a minute was closed by an
\* adjusted end-job and has duration 0: the adjustment of -1 was stopped at 0
ClampedAfterRunning ==
    \E i \in DOMAIN sessions :
        /\ sessions[i].end_time # NULL
        /\ sessions[i].calculation_method = "adjusted"
        /\ sessions[i].run_ticks >= 1
        /\ sessions[i].run_minutes = 0
        /\ sessions[i].duration_minutes = 0

\* ------------------------------------------------------- the running total
\* C35: the current total of an open session (accumulated_minutes, plus the
\* whole minutes of the live segment when it is running) never decreases, as
\* time advances and as start-job, pause-job, resume-job and
\* submit-job-quote requests, accepted or rejected, are processed.
CurrentTotalNeverDecreases ==
    [][\A i \in DOMAIN sessions :
          (sessions[i].end_time = NULL /\ sessions'[i].end_time = NULL) =>
              CountedMinutes(sessions'[i], now') >= CountedMinutes(sessions[i], now)]_vars

\* C35 witness: a session that ran for a minute, was paused and runs again,
\* with the minute it banked
ResumedWithBankedMinute ==
    \E i \in DOMAIN sessions :
        /\ sessions[i].end_time = NULL
        /\ ~sessions[i].is_paused
        /\ sessions[i].accumulated_minutes >= 1
        /\ sessions[i].pause_start_time > sessions[i].start_time

\* ------------------------------------------------------- the engineer's job listing
\* statuses a job row may hold when the listing is read: those the handlers
\* write, those the office and its billing workflow write, in the letter
\* cases met, and null (written "")
ListingStatuses ==
    {"", "Assigned", "In Progress", "Quoted", "Working", "Cancelled",
     "Completed", "completed", "COMPLETED", "Invoiced", "Paid", "PAID",
     "1stReminder", "1streminder", "2ndReminder", "2ndreminder"}

\* job_status ILIKE pattern, for a pattern without wildcards: "unknown" for
\* a null status, as SQL has it
ILike(status, pattern) ==
    IF status = "" THEN "unknown"
    ELSE IF Lower(status) = pattern THEN "true" ELSE "false"

\* the patterns both queries of the listing name
ListedAsCompleted == {"completed", "invoiced", "paid", "1streminder"}

\* GET /api/engineers/jobs, first page: the ids in assignedJobs, the rows of
\* the engineer that pass every .not("job_status", "ilike", pattern); a row
\* passes a filter only when the filter is true of it
AssignedJobs(js, e) ==
    {i \in DOMAIN js :
        /\ js[i].engineer_uuid = e
        /\ \A pattern \in ListedAsCompleted : ILike(js[i].job_status, pattern) = "false"}

\* the ids in completedJobs, the rows of the engineer that pass the .or(...)
\* of the four ilike filters
CompletedJobs(js, e) ==
    {i \in DOMAIN js :
        /\ js[i].engineer_uuid = e
        /\ \E pattern \in ListedAsCompleted : ILike(js[i].job_status, pattern) = "true"}

GetEngineerJobsResponse(e) ==
    [assignedJobs |-> AssignedJobs(jobs, e), completedJobs |-> CompletedJobs(jobs, e)]

GetEngineerJobs(e) ==
    /\ GetEngineerJobsResponse(e) \in
          [assignedJobs : SUBSET DOMAIN jobs, completedJobs : SUBSET DOMAIN jobs]
    /\ UNCHANGED vars

\* two jobs of the engineers, in any of the statuses
InitListing ==
    /\ now = 0
    /\ customers = [c \in Customers |-> NewCustomer(c)]
    /\ jobs \in [{1, 2} -> {[RouteJob(1, e, NULL, NULL, 1, <<>>) EXCEPT !.job_status = status] :
                              e \in Engineers, status \in ListingStatuses}]
    /\ sessions = <<>>
    /\ routes = <<>>
    /\ procs = IdleProcs

NextListing == \E e \in Engineers : GetEngineerJobs(e)

SpecListing == InitListing /\ [][NextListing]_vars

\* C36: a job of the engineer is in completedJobs exactly when
\* isJobCompleted(job_status) is true and in assignedJobs exactly when it is
\* false, so it is in one of the two lists and not in both.
\* (Not so: neither query names 2ndreminder, so such a job is listed as
\* assigned; and a job without a status passes neither query.)
ListingMatchesClassifier ==
    \A e \in Engineers, j \in DOMAIN jobs :
        jobs[j].engineer_uuid = e =>
            /\ j \in GetEngineerJobsResponse(e).completedJobs <=> isJobCompleted(jobs[j].job_status)
            /\ j \in GetEngineerJobsResponse(e).assignedJobs <=> ~isJobCompleted(jobs[j].job_status)

====
